---- MODULE Spec2Model ----
(***************************************************************************)
(* Model of the tiddler synchronisation core of pywebview-tw:              *)
(*   - WikiFlaskServer (src/src/api/flask_server.py): the HTTP facade with *)
(*     its column table `tiddlers`, revision bookkeeping and RLock;        *)
(*   - TiddlerStore (src/src/api/tiddler_store.py): the JSON-blob table,   *)
(*     the wiki_metadata table (Save Marker) and get_updated_tiddlers;     *)
(*   - WikiWindowAPI (src/src/main.py): the local-call surface.            *)
(* Strings whose content the code inspects (titles, timestamps) are        *)
(* sequences of one-character strings.  An optional value (Python None or  *)
(* a value) is a sequence of length 0 or 1.                                *)
(***************************************************************************)
EXTENDS Integers, Sequences, FiniteSets, TLC

VARIABLES
    rows,              \* WikiFlaskServer: table tiddlers, title -> row (non-NULL columns)
    db_lock,           \* WikiFlaskServer.db_lock: [owner, count] of the RLock
    pc,                \* per request thread: position in its handler
    req,               \* per request thread: [title, data] of the request being served
    current_revision,  \* per request thread: local of _put_tiddler
    new_revision,      \* per request thread: local of _put_tiddler / put_tiddler route
    tiddler,           \* per request thread: what _get_tiddler read (optional row)
    stale,             \* ghost, per thread: a DELETE of its title ran after its write
    putCount,          \* ghost, per title: puts executed since the title was last absent
    maxRev,            \* ghost, per title: greatest revision ever assigned
    lastPut,           \* ghost, per title: optional [data, revision] of the latest put
    store,             \* TiddlerStore: table tiddlers, title -> tiddler_data (JSON object)
    wiki_metadata,     \* TiddlerStore: table wiki_metadata, key -> value
    clock,             \* datetime.utcnow(), in ticks
    lastSave,          \* ghost: optional timestamp of the latest record_html_save call
    localPut,          \* ghost, per title: optional JSON of the latest local put in effect
    started,           \* requests the concurrent facade has taken up so far
    own,               \* ghost, per thread: optional [title, data, revision, later] of
                       \* the thread's latest executed put; later = a write of the
                       \* title was executed after it
    ret,               \* the latest call on the sequential surfaces and what it returned
    is_android_env,    \* open_wiki: an ANDROID_* environment variable is set
    current_wiki_id,   \* MultiWikiApp._current_wiki_id (NoWiki = None)
    wiki_windows,      \* WindowManager.wiki_windows: wiki_id -> the WikiWindowAPI of its window
    api_instances,     \* every WikiWindowAPI constructed: id -> [wiki_id, open, window];
                       \* open = its TiddlerStore.db_conn is open
    wiki_api,          \* open_wiki: its local wiki_api between construction and return
    wiki_html,         \* per wiki_id: content of the wiki HTML file
    db_files,          \* per database path: [tiddlers, wiki_metadata] of the file
    store_lock,        \* per WikiWindowAPI: TiddlerStore.db_lock, [owner, count]
    api_pc,            \* per js_api thread: position in the WikiWindowAPI method
    api_req,           \* per js_api thread: [inst, op] of the call being served
    tiddlers_schema,   \* one database file with both classes on it: the columns the
                       \* table tiddlers was created with ("none", "columns", "json")
    surfaces,          \* that file: the classes constructed on it ("facade", "store")
    client,            \* per WikiWindowAPI: [loaded, preload, booted] of the page in
                       \* its window
    registry,          \* WikiManager: metadata["wikis"] in wikis.json, a list of ids
    cat_pc,            \* per js_api thread: position in the WikiManager method
    cat_local,         \* per js_api thread: [op, wiki_id, metadata] of that method
    created,           \* ghost: ids whose create_wiki has returned
    deleted,           \* ghost: ids whose delete_wiki has returned
    issued             \* ghost: uuid4 values handed out so far

vars == <<rows, db_lock, pc, req, current_revision, new_revision, tiddler, stale,
          putCount, maxRev, lastPut, store, wiki_metadata, clock, lastSave,
          localPut, started, own, ret, is_android_env, current_wiki_id, wiki_windows,
          api_instances, wiki_api, wiki_html, db_files, store_lock, api_pc, api_req,
          tiddlers_schema, surfaces, client, registry, cat_pc, cat_local, created,
          deleted, issued>>

sharedFileVars == <<tiddlers_schema, surfaces>>

catalogVars == <<registry, cat_pc, cat_local, created, deleted, issued>>

appVars == <<is_android_env, current_wiki_id, wiki_windows, api_instances, wiki_api,
             wiki_html, db_files, store_lock, api_pc, api_req, client, sharedFileVars,
             catalogVars>>

facadeVars == <<rows, db_lock, pc, req, current_revision, new_revision, tiddler, stale,
                putCount, maxRev, lastPut, started, own>>

storeVars == <<store, wiki_metadata, clock, lastSave, localPut>>

----------------------------------------------------------------------------
(* Bounds *)

NumThreads == 2

MaxRevision == 3

MaxClock == 2

MaxRequests == 4

\* WikiWindowAPI instances open_wiki constructs
MaxInstances == 2

\* Wikis create_wiki makes
MaxWikis == 2

Threads == 1 .. NumThreads

----------------------------------------------------------------------------
(* Strings and optional values *)

None == <<>>

Some(x) == <<x>>

TitleA == <<"A">>

TitleB == <<"B">>

TitleC == <<"C">>

TitleSys == <<"$", ":", "/", "S">>

TitleNear == <<"$", ":", "S">>

TitleEmpty == <<>>

SystemPrefix == <<"$", ":", "/">>

\* The decimal digit characters
DigitOf(d) == <<"0", "1", "2", "3", "4", "5", "6", "7", "8", "9">>[d + 1]

\* str.startswith
StartsWith(s, prefix) ==
    /\ Len(s) >= Len(prefix)
    /\ SubSeq(s, 1, Len(prefix)) = prefix

\* SQLite's LIKE on two texts: % matches any run of characters, _ any one.
RECURSIVE Like(_, _)
Like(s, pattern) ==
    IF pattern = <<>> THEN s = <<>>
    ELSE IF Head(pattern) = "%"
         THEN Like(s, Tail(pattern)) \/ (s # <<>> /\ Like(Tail(s), pattern))
    ELSE IF s = <<>> THEN FALSE
    ELSE (Head(pattern) = "_" \/ Head(pattern) = Head(s)) /\ Like(Tail(s), Tail(pattern))

\* The WHERE clause  title NOT LIKE '$:/%'
NotLikeSystemMutantNoWildcard(title) == ~Like(title, <<"$", ":", "/">>)

NotLikeSystem(title) == ~Like(title, <<"$", ":", "/", "%">>)

\* A table restricted to every key but one (DELETE ... WHERE title = ?)
DeleteRowMutantAll(table, title) == [t \in {} |-> table[t]]

DeleteRow(table, title) == [t \in (DOMAIN table) \ {title} |-> table[t]]

\* REPLACE INTO: the row of that primary key is dropped and the new one inserted
ReplaceRowMutantMerge(table, title, row) ==
    [t \in (DOMAIN table) \cup {title} |->
        IF t # title THEN table[t]
        ELSE IF title \notin DOMAIN table THEN row
        ELSE [c \in (DOMAIN row) \cup (DOMAIN table[title]) |->
                 IF c \in DOMAIN row THEN row[c] ELSE table[title][c]]]

ReplaceRow(table, title, row) ==
    [t \in (DOMAIN table) \cup {title} |-> IF t = title THEN row ELSE table[t]]

EmptyTable == [t \in {} |-> None]

\* A table after a SELECT statement ran on it: a query changes no row
AfterSelectMutantDrops(table) == [t \in {} |-> table[t]]

AfterSelect(table) == table

\* A text that is not JSON
MalformedJson == [malformed |-> "{"]

\* SQLite's json(?) and Flask's request.get_json() accept the text
IsValidJsonMutantAlways(text) == TRUE

IsValidJson(text) == DOMAIN text # {"malformed"}

----------------------------------------------------------------------------
(* WikiFlaskServer: the lock *)

FreeLock == [owner |-> 0, count |-> 0]

\* threading.RLock: free, or already owned by the calling thread
CanAcquireMutantNoLock(lock, th) == TRUE

CanAcquire(lock, th) == lock.owner = 0 \/ lock.owner = th

Acquire(lock, th) ==
    IF lock.owner = th THEN [owner |-> th, count |-> lock.count + 1]
    ELSE [owner |-> th, count |-> 1]

Release(lock, th) ==
    IF lock.owner = th /\ lock.count > 1 THEN [owner |-> th, count |-> lock.count - 1]
    ELSE FreeLock

----------------------------------------------------------------------------
(* WikiFlaskServer: the table *)

\* The columns of the table other than title and revision
DataColumns == {"bag", "created", "creator", "modified", "modifier", "permissions",
                "recipe", "tags", "text", "type", "uri", "fields"}

\* _get_current_revision: the stored revision, 0 when the title has no row
GetCurrentRevision(table, title) ==
    IF title \in DOMAIN table /\ "revision" \in DOMAIN table[title]
    THEN table[title].revision
    ELSE 0

\* JSON values of a payload that the code inspects are records with one field that
\* names their kind: [dict |-> d] an object, [list |-> q] an array, [num |-> n] a
\* number, [bool |-> b] a boolean, [str |-> chars] a string of the tags field.  A
\* string held in the fields column is [json |-> v] when its content is the JSON
\* text that denotes v, and [raw |-> s] when its content is not JSON.
\* json.dumps of a dict or list: the JSON text that denotes the value.  A text is
\* identified by what it denotes, so a caller's string with the same content is
\* the same text.
JsonDumps(v) == [json |-> v]

IsJsonText(s) == DOMAIN s = {"json"}

IsDict(v) == DOMAIN v = {"dict"}

IsList(v) == DOMAIN v = {"list"}

\* The value a TEXT column holds for a bound parameter: a str as it is; an int
\* (and a bool, which sqlite3 binds as the int 0 or 1) as its decimal text, which
\* is the JSON text of that number
TextAffinity(v) ==
    IF DOMAIN v = {"num"} THEN [json |-> v]
    ELSE IF DOMAIN v = {"bool"} THEN [json |-> [num |-> IF v.bool THEN 1 ELSE 0]]
    ELSE v

\* _put_tiddler: fields = json.dumps(fields) when it is a dict or list
FieldsColumn(fields) ==
    IF IsDict(fields) \/ IsList(fields) THEN JsonDumps(fields) ELSE TextAffinity(fields)

\* json.loads(value) of _get_tiddler: the value the text denotes; the text itself
\* when it is not JSON (JSONDecodeError)
JsonLoads(value) == IF IsJsonText(value) THEN value.json ELSE value

\* str(n) of a non-negative int
RECURSIVE IntToStr(_)
IntToStr(n) ==
    IF n < 10 THEN <<DigitOf(n)>> ELSE IntToStr(n \div 10) \o <<DigitOf(n % 10)>>

\* " " in tag_str
HasSpace(tag_str) == \E i \in 1 .. Len(tag_str) : tag_str[i] = " "

\* f"[[{tag_str}]]" when the tag has a space, the tag otherwise
WrapTag(tag_str) ==
    IF HasSpace(tag_str) THEN <<"[", "[">> \o tag_str \o <<"]", "]">> ELSE tag_str

\* " ".join(result_tags)
RECURSIVE JoinSpace(_)
JoinSpace(result_tags) ==
    IF result_tags = <<>> THEN <<>>
    ELSE IF Len(result_tags) = 1 THEN result_tags[1]
    ELSE result_tags[1] \o <<" ">> \o JoinSpace(Tail(result_tags))

\* _convert_tags_to_string: a str as it is, a list joined, anything else str(tags)
ConvertTagsToString(tags) ==
    IF DOMAIN tags = {"str"} THEN tags.str
    ELSE IF IsList(tags)
         THEN JoinSpace([i \in 1 .. Len(tags.list) |-> WrapTag(tags.list[i])])
    ELSE IntToStr(tags.num)

\* The row _put_tiddler writes: the title, the computed revision, and every data
\* column the payload carries (tiddler_data.get(column)), tags converted and
\* fields as JSON text; a revision in the payload is not read, and neither is a
\* key that names no column.
PutRowMutantKeepRevision(table, title, data, revision) ==
    [c \in {"title", "revision"} \cup (DOMAIN data \cap DataColumns) |->
        IF c = "title" THEN title
        ELSE IF c = "revision"
             THEN (IF title \in DOMAIN table THEN table[title].revision ELSE revision)
        ELSE IF c = "tags" THEN ConvertTagsToString(data[c])
        ELSE IF c = "fields" THEN FieldsColumn(data[c])
        ELSE data[c]]

PutRow(table, title, data, revision) ==
    [c \in {"title", "revision"} \cup (DOMAIN data \cap DataColumns) |->
        IF c = "title" THEN title
        ELSE IF c = "revision" THEN revision
        ELSE IF c = "tags" THEN ConvertTagsToString(data[c])
        ELSE IF c = "fields" THEN FieldsColumn(data[c])
        ELSE data[c]]

\* current_revision + 1
NextRevisionMutantNoIncrement(current) == IF current = 0 THEN 1 ELSE current

NextRevision(current) == current + 1

\* _get_tiddler: the dict built from a row: its non-NULL columns, the fields
\* column decoded
RowToTiddler(row) ==
    [c \in DOMAIN row |-> IF c = "fields" THEN JsonLoads(row[c]) ELSE row[c]]

\* _get_tiddler: that dict, or None when the title has no row
GetTiddlerMutantFirstRevision(table, title) ==
    IF title \in DOMAIN table /\ table[title].revision = 1
    THEN Some(RowToTiddler(table[title])) ELSE None

GetTiddler(table, title) ==
    IF title \in DOMAIN table THEN Some(RowToTiddler(table[title])) ELSE None

\* urllib.parse.quote: the characters never quoted (letters, digits and _.-~), as
\* far as the modelled titles use them
AlwaysSafe ==
    {"A", "B", "C", "D", "E", "F", "S", "X", "Z", "a", "b", "c", "_", ".", "-", "~",
     "0", "1", "2", "3", "4", "5", "6", "7", "8", "9"}

\* The two upper-case hexadecimal digits of the (one-byte) character
HexOf(c) ==
    CASE c = "$" -> <<"2", "4">>
      [] c = ":" -> <<"3", "A">>
      [] c = "/" -> <<"2", "F">>
      [] c = " " -> <<"2", "0">>
      [] c = "%" -> <<"2", "5">>
      [] c = "[" -> <<"5", "B">>
      [] c = "]" -> <<"5", "D">>

\* quote: every character outside the safe ones becomes %XX
RECURSIVE QuoteChars(_, _)
QuoteChars(string, safe) ==
    IF string = <<>> THEN <<>>
    ELSE (IF Head(string) \in AlwaysSafe \cup safe
          THEN <<Head(string)>>
          ELSE <<"%">> \o HexOf(Head(string)))
         \o QuoteChars(Tail(string), safe)

\* quote(title, safe="")
QuoteMutantSlashSafe(string, safe) == QuoteChars(string, safe \cup {"/"})

Quote(string, safe) == QuoteChars(string, safe)

\* f'"default/{encoded_title}/{new_revision}:"'
ETagValue(encoded_title, revision) ==
    <<"\"", "d", "e", "f", "a", "u", "l", "t", "/">> \o encoded_title
        \o <<"/">> \o IntToStr(revision) \o <<":", "\"">>

\* _get_all_tiddlers_flat: a row whose title starts with "$:/" is skipped
ListSkipsMutantNever(title) == FALSE

ListSkips(title) == StartsWith(title, SystemPrefix)

\* _get_all_tiddlers_flat: the dict appended for one row: every non-NULL column
\* but text and fields, then the keys of the decoded fields object written over it
ListEntry(row) ==
    LET top  == (DOMAIN row) \ {"text", "fields"}
        flat == IF "fields" \in DOMAIN row /\ IsJsonText(row.fields) /\ IsDict(row.fields.json)
                THEN row.fields.json.dict
                ELSE [k \in {} |-> None]
    IN  [k \in top \cup DOMAIN flat |-> IF k \in DOMAIN flat THEN flat[k] ELSE row[k]]

\* _get_all_tiddlers_flat: the list, as the map from each listed row's primary
\* key to the dict appended for it (the order of the list is the table's)
GetAllTiddlersFlat(table) ==
    [t \in {u \in DOMAIN table : ~ListSkips(u)} |-> ListEntry(table[t])]

----------------------------------------------------------------------------
(* TiddlerStore: timestamps *)

DigitChars == <<"0", "1", "2", "3", "4", "5", "6", "7", "8", "9">>

\* The characters of the modelled timestamps in byte order ('-' sorts before the
\* digits, a letter after them)
ByteOrder == <<"-">> \o DigitChars \o <<"x">>

CodeOf(c) == CHOOSE i \in 1 .. Len(ByteOrder) : ByteOrder[i] = c

\* strftime("%Y%m%d%H%M%S") + f"{ms:03d}": fixed-width, zero-padded digits;
\* the model's clock has two digits
TwTimestamp(n) == <<DigitChars[((n \div 10) % 10) + 1], DigitChars[(n % 10) + 1]>>

\* The ISO-8601 text of the same instant: the same digits with a separator
IsoTimestamp(n) == <<DigitChars[((n \div 10) % 10) + 1], "-", DigitChars[(n % 10) + 1]>>

IsDigit(c) == \E i \in 1 .. Len(DigitChars) : DigitChars[i] = c

\* datetime.fromisoformat accepts the text (digits around the separator)
IsIsoFormat(s) == Len(s) = 3 /\ IsDigit(s[1]) /\ s[2] = "-" /\ IsDigit(s[3])

\* _iso_to_tiddlywiki_timestamp: the digits of a parsed ISO text; the text itself
\* when parsing raises
IsoToTiddlywikiTimestampMutantRaw(s) == s

IsoToTiddlywikiTimestamp(s) == IF IsIsoFormat(s) THEN <<s[1], s[3]>> ELSE s

\* SQLite's comparison of two TEXT values (BINARY collation: memcmp, then length)
RECURSIVE TextLess(_, _)
TextLess(a, b) ==
    IF b = <<>> THEN FALSE
    ELSE IF a = <<>> THEN TRUE
    ELSE IF Head(a) = Head(b) THEN TextLess(Tail(a), Tail(b))
    ELSE CodeOf(Head(a)) < CodeOf(Head(b))

----------------------------------------------------------------------------
(* TiddlerStore: the tables and the queries *)

\* json_extract(tiddler_data, '$.modified') > ?  (NULL when the field is missing,
\* and NULL > ? is not true)
ModifiedAfterMutantOrEqual(tiddler_data, baseline) ==
    /\ "modified" \in DOMAIN tiddler_data
    /\ ~TextLess(tiddler_data.modified, baseline)

ModifiedAfter(tiddler_data, baseline) ==
    /\ "modified" \in DOMAIN tiddler_data
    /\ TextLess(baseline, tiddler_data.modified)

\* SELECT title FROM tiddlers WHERE title NOT LIKE '$:/%'
NonSystemTitlesMutantNeedsModified(table) ==
    {t \in DOMAIN table : NotLikeSystem(t) /\ "modified" \in DOMAIN table[t]}

NonSystemTitles(table) == {t \in DOMAIN table : NotLikeSystem(t)}

\* SELECT title FROM tiddlers WHERE json_extract(...) > ? AND title NOT LIKE '$:/%'
ModifiedSince(table, baseline) ==
    {t \in DOMAIN table : ModifiedAfter(table[t], baseline) /\ NotLikeSystem(t)}

\* record_html_save: REPLACE INTO wiki_metadata (key, value) VALUES ('last_html_save', ?)
RecordHtmlSaveMutantKeepFirst(metadata, now) ==
    IF "last_html_save" \in DOMAIN metadata THEN metadata
    ELSE [k \in {"last_html_save"} |-> TwTimestamp(now)]

RecordHtmlSave(metadata, now) ==
    [k \in (DOMAIN metadata) \cup {"last_html_save"} |->
        IF k = "last_html_save" THEN TwTimestamp(now) ELSE metadata[k]]

\* TiddlerStore.get_tiddler: the stored JSON as it is, or None
StoreGetTiddler(table, title) ==
    IF title \in DOMAIN table THEN Some(table[title]) ELSE None

\* delete_tiddler: cursor.rowcount > 0 after the DELETE
DeletedMutantAlways(table, title) == TRUE

Deleted(table, title) == title \in DOMAIN table

\* get_last_html_save
GetLastHtmlSave(metadata) ==
    IF "last_html_save" \in DOMAIN metadata THEN Some(metadata["last_html_save"]) ELSE None

\* _detect_deletions
DetectDeletions(table, current_tiddlers) ==
    IF current_tiddlers = None THEN {}
    ELSE LET sqlite_tiddlers == NonSystemTitles(table)
             current_set == {t \in current_tiddlers[1] : ~StartsWith(t, SystemPrefix)}
         IN  current_set \ sqlite_tiddlers

\* get_updated_tiddlers: the value the modified column is compared with, None on
\* the path that compares nothing
Baseline(metadata, since_timestamp) ==
    IF since_timestamp = None THEN GetLastHtmlSave(metadata)
    ELSE Some(IsoToTiddlywikiTimestamp(since_timestamp[1]))

\* get_updated_tiddlers
GetUpdatedTiddlers(table, metadata, since_timestamp, current_tiddlers) ==
    IF since_timestamp = None
    THEN LET last_html_save == GetLastHtmlSave(metadata)
         IN  IF last_html_save = None
             THEN [modifications |-> NonSystemTitles(table), deletions |-> {}]
             ELSE [modifications |-> ModifiedSince(table, last_html_save[1]),
                   deletions |-> DetectDeletions(table, current_tiddlers)]
    ELSE LET tw_timestamp == IsoToTiddlywikiTimestamp(since_timestamp[1])
         IN  [modifications |-> ModifiedSince(table, tw_timestamp),
              deletions |-> DetectDeletions(table, current_tiddlers)]

----------------------------------------------------------------------------
(* Inputs *)

\* Every title a record is stored under in some specification
Titles == {TitleA, TitleB, TitleSys, TitleNear, TitleEmpty}

\* Titles the concurrent clients of the facade write, read and delete
WireTitles == {TitleA, TitleB}

\* JSON bodies of a wire PUT; the second carries a revision of the caller's
WirePayloads == { [text |-> "x"], [text |-> "y", revision |-> 7] }

NoRequest == [title |-> <<>>, data |-> [text |-> ""]]

\* The wikis (wiki_id) of the wiki manager
Docs == {1, 2}

\* self._current_wiki_id = None
NoWiki == 0

\* TiddlerStore.__init__: self.db_path = wiki_dir / f"{wiki_id}_tiddlers.db", all
\* wikis being kept in one directory
DbPathMutantShared(wiki_id) == 1

DbPath(wiki_id) == wiki_id

\* _init_database on a new file: both tables, empty
NewDatabase == [tiddlers |-> EmptyTable, wiki_metadata |-> EmptyTable]

NoCall == [inst |-> 0, op |-> "none", tiddler |-> [text |-> ""], modifications |-> {},
           baseline |-> None]

\* A wiki HTML file: its text and, as a ghost, the titles of the store that the
\* text contains (those stored when the text was captured)
BaseHtml == [text |-> "old", tiddlers |-> {}]

NoCatalogCall == [op |-> "none", wiki_id |-> 0, metadata |-> <<>>]

----------------------------------------------------------------------------
(* Initial state: a fresh database file, no Save Marker, every thread idle *)

NoReturn ==
    [op |-> "none", title |-> <<>>, arg |-> None, since |-> None, live |-> None,
     value |-> None, before |-> None, modifications |-> {}, deletions |-> {},
     listing |-> EmptyTable, status |-> 0, etag |-> <<>>, deleted |-> FALSE,
     baseline |-> None, raised |-> "none", wiki_id |-> 0, now |-> 0]

InitOn(android) ==
    /\ rows = EmptyTable
    /\ db_lock = FreeLock
    /\ pc = [th \in Threads |-> "idle"]
    /\ req = [th \in Threads |-> NoRequest]
    /\ current_revision = [th \in Threads |-> 0]
    /\ new_revision = [th \in Threads |-> 0]
    /\ tiddler = [th \in Threads |-> None]
    /\ stale = [th \in Threads |-> FALSE]
    /\ putCount = [t \in Titles |-> 0]
    /\ maxRev = [t \in Titles |-> 0]
    /\ lastPut = [t \in Titles |-> None]
    /\ store = EmptyTable
    /\ wiki_metadata = EmptyTable
    /\ clock = 0
    /\ lastSave = None
    /\ localPut = [t \in Titles |-> None]
    /\ ret = NoReturn
    /\ started = 0
    /\ own = [th \in Threads |-> None]
    /\ is_android_env = android
    /\ current_wiki_id = NoWiki
    /\ wiki_windows = EmptyTable
    /\ api_instances = EmptyTable
    /\ wiki_api = None
    /\ wiki_html = [d \in Docs |-> BaseHtml]
    /\ db_files = [f \in Docs |-> NewDatabase]
    /\ store_lock = EmptyTable
    /\ api_pc = [th \in Threads |-> "idle"]
    /\ api_req = [th \in Threads |-> NoCall]
    /\ tiddlers_schema = "none"
    /\ surfaces = {}
    /\ client = EmptyTable
    /\ registry = <<>>
    /\ cat_pc = [th \in Threads |-> "idle"]
    /\ cat_local = [th \in Threads |-> NoCatalogCall]
    /\ created = {}
    /\ deleted = {}
    /\ issued = 0

\* The desktop process, where every wiki window has its WikiWindowAPI
Init == InitOn(FALSE)

\* The process on either platform
InitApp == \E android \in BOOLEAN : InitOn(android)

----------------------------------------------------------------------------
(* WikiFlaskServer: a wire PUT, one step per statement that touches shared state *)

\* route put_tiddler: request.get_json(), then the call of _put_tiddler
BeginPut(th, title, data) ==
    /\ pc[th] = "idle"
    /\ started < MaxRequests
    /\ started' = started + 1
    /\ pc' = [pc EXCEPT ![th] = "put_lock"]
    /\ req' = [req EXCEPT ![th] = [title |-> title, data |-> data]]
    /\ stale' = [stale EXCEPT ![th] = FALSE]
    /\ UNCHANGED <<rows, db_lock, current_revision, new_revision, tiddler,
                   putCount, maxRev, lastPut, storeVars, own, ret>>
    /\ UNCHANGED appVars

\* _put_tiddler: with self.db_lock
PutAcquire(th) ==
    /\ pc[th] = "put_lock"
    /\ CanAcquire(db_lock, th)
    /\ db_lock' = Acquire(db_lock, th)
    /\ pc' = [pc EXCEPT ![th] = "put_rev"]
    /\ UNCHANGED <<rows, req, current_revision, new_revision, tiddler, stale,
                   putCount, maxRev, lastPut, storeVars, started, own, ret>>
    /\ UNCHANGED appVars

\* _put_tiddler: current_revision = self._get_current_revision(title), which takes
\* the lock again on the same thread, reads and gives the nested hold back
PutGetRevision(th) ==
    /\ pc[th] = "put_rev"
    /\ CanAcquire(db_lock, th)
    /\ db_lock' = Release(Acquire(db_lock, th), th)
    /\ current_revision' =
           [current_revision EXCEPT ![th] = GetCurrentRevision(rows, req[th].title)]
    /\ pc' = [pc EXCEPT ![th] = "put_exec"]
    /\ UNCHANGED <<rows, req, new_revision, tiddler, stale,
                   putCount, maxRev, lastPut, storeVars, started, own, ret>>
    /\ UNCHANGED appVars

\* Ghost: the put of a thread once a write of the title was executed after it
LaterWrite(o, title) ==
    IF o # None /\ o[1].title = title THEN Some([o[1] EXCEPT !.later = TRUE]) ELSE o

\* _put_tiddler: new_revision = current_revision + 1, REPLACE INTO tiddlers, commit
PutExecute(th) ==
    LET title == req[th].title
        rev   == NextRevision(current_revision[th])
    IN  /\ pc[th] = "put_exec"
        /\ rows' = ReplaceRow(rows, title, PutRow(rows, title, req[th].data, rev))
        /\ new_revision' = [new_revision EXCEPT ![th] = rev]
        /\ putCount' = [putCount EXCEPT ![title] = @ + 1]
        /\ maxRev' = [maxRev EXCEPT ![title] = IF rev > @ THEN rev ELSE @]
        /\ lastPut' = [lastPut EXCEPT ![title] =
                           Some([data |-> req[th].data, revision |-> rev])]
        /\ own' = [o \in Threads |->
                      IF o = th
                      THEN Some([title |-> title, data |-> req[th].data,
                                 revision |-> rev, later |-> FALSE])
                      ELSE LaterWrite(own[o], title)]
        /\ pc' = [pc EXCEPT ![th] = "put_ret"]
        /\ UNCHANGED <<db_lock, req, current_revision, tiddler, stale, storeVars, started, ret>>
        /\ UNCHANGED appVars

\* _put_tiddler: return new_revision, leaving the with block
PutReturn(th) ==
    /\ pc[th] = "put_ret"
    /\ db_lock' = Release(db_lock, th)
    /\ pc' = [pc EXCEPT ![th] = "put_resp"]
    /\ UNCHANGED <<rows, req, current_revision, new_revision, tiddler, stale,
                   putCount, maxRev, lastPut, storeVars, started, own, ret>>
    /\ UNCHANGED appVars

\* route put_tiddler: the 204 response with the ETag built from new_revision
PutRespond(th) ==
    /\ pc[th] = "put_resp"
    /\ pc' = [pc EXCEPT ![th] = "idle"]
    /\ req' = [req EXCEPT ![th] = NoRequest]
    /\ current_revision' = [current_revision EXCEPT ![th] = 0]
    /\ new_revision' = [new_revision EXCEPT ![th] = 0]
    /\ stale' = [stale EXCEPT ![th] = FALSE]
    /\ UNCHANGED <<rows, db_lock, tiddler, putCount, maxRev, lastPut, storeVars, started, own, ret>>
    /\ UNCHANGED appVars

----------------------------------------------------------------------------
(* WikiFlaskServer: a wire GET *)

BeginGet(th, title) ==
    /\ pc[th] = "idle"
    /\ started < MaxRequests
    /\ started' = started + 1
    /\ pc' = [pc EXCEPT ![th] = "get_lock"]
    /\ req' = [req EXCEPT ![th] = [title |-> title, data |-> NoRequest.data]]
    /\ UNCHANGED <<rows, db_lock, current_revision, new_revision, tiddler, stale,
                   putCount, maxRev, lastPut, storeVars, own, ret>>
    /\ UNCHANGED appVars

\* _get_tiddler: with self.db_lock
GetAcquire(th) ==
    /\ pc[th] = "get_lock"
    /\ CanAcquire(db_lock, th)
    /\ db_lock' = Acquire(db_lock, th)
    /\ pc' = [pc EXCEPT ![th] = "get_read"]
    /\ UNCHANGED <<rows, req, current_revision, new_revision, tiddler, stale,
                   putCount, maxRev, lastPut, storeVars, started, own, ret>>
    /\ UNCHANGED appVars

\* _get_tiddler: SELECT ... WHERE title = ?, fetchone, the dict of the row
GetRead(th) ==
    /\ pc[th] = "get_read"
    /\ tiddler' = [tiddler EXCEPT ![th] = GetTiddler(rows, req[th].title)]
    /\ pc' = [pc EXCEPT ![th] = "get_ret"]
    /\ UNCHANGED <<rows, db_lock, req, current_revision, new_revision, stale,
                   putCount, maxRev, lastPut, storeVars, started, own, ret>>
    /\ UNCHANGED appVars

\* _get_tiddler returns (the lock is given back); route get_tiddler answers 200
\* with the record or 404 with an empty body
GetReturn(th) ==
    /\ pc[th] = "get_ret"
    /\ db_lock' = Release(db_lock, th)
    /\ pc' = [pc EXCEPT ![th] = "idle"]
    /\ req' = [req EXCEPT ![th] = NoRequest]
    /\ tiddler' = [tiddler EXCEPT ![th] = None]
    /\ UNCHANGED <<rows, current_revision, new_revision, stale,
                   putCount, maxRev, lastPut, storeVars, started, own, ret>>
    /\ UNCHANGED appVars

----------------------------------------------------------------------------
(* WikiFlaskServer: a wire DELETE *)

BeginDelete(th, title) ==
    /\ pc[th] = "idle"
    /\ started < MaxRequests
    /\ started' = started + 1
    /\ pc' = [pc EXCEPT ![th] = "del_lock"]
    /\ req' = [req EXCEPT ![th] = [title |-> title, data |-> NoRequest.data]]
    /\ UNCHANGED <<rows, db_lock, current_revision, new_revision, tiddler, stale,
                   putCount, maxRev, lastPut, storeVars, own, ret>>
    /\ UNCHANGED appVars

\* _delete_tiddler: with self.db_lock
DeleteAcquire(th) ==
    /\ pc[th] = "del_lock"
    /\ CanAcquire(db_lock, th)
    /\ db_lock' = Acquire(db_lock, th)
    /\ pc' = [pc EXCEPT ![th] = "del_exec"]
    /\ UNCHANGED <<rows, req, current_revision, new_revision, tiddler, stale,
                   putCount, maxRev, lastPut, storeVars, started, own, ret>>
    /\ UNCHANGED appVars

\* _delete_tiddler: DELETE FROM tiddlers WHERE title = ?, commit, the lock given
\* back; route delete_tiddler answers 204
DeleteExecute(th) ==
    LET title == req[th].title
    IN  /\ pc[th] = "del_exec"
        /\ rows' = DeleteRow(rows, title)
        /\ db_lock' = Release(db_lock, th)
        /\ putCount' = [putCount EXCEPT ![title] = 0]
        /\ lastPut' = [lastPut EXCEPT ![title] = None]
        /\ stale' = [o \in Threads |->
                        IF pc[o] \in {"put_ret", "put_resp"} /\ req[o].title = title
                        THEN TRUE ELSE stale[o]]
        /\ pc' = [pc EXCEPT ![th] = "idle"]
        /\ req' = [req EXCEPT ![th] = NoRequest]
        /\ own' = [o \in Threads |-> LaterWrite(own[o], title)]
        /\ UNCHANGED <<current_revision, new_revision, tiddler, maxRev, storeVars, started, ret>>
        /\ UNCHANGED appVars

----------------------------------------------------------------------------
(* The facade under concurrent requests *)

Next ==
    \/ \E th \in Threads, title \in WireTitles, data \in WirePayloads : BeginPut(th, title, data)
    \/ \E th \in Threads : PutAcquire(th)
    \/ \E th \in Threads : PutGetRevision(th)
    \/ \E th \in Threads : PutExecute(th)
    \/ \E th \in Threads : PutReturn(th)
    \/ \E th \in Threads : PutRespond(th)
    \/ \E th \in Threads, title \in WireTitles : BeginGet(th, title)
    \/ \E th \in Threads : GetAcquire(th)
    \/ \E th \in Threads : GetRead(th)
    \/ \E th \in Threads : GetReturn(th)
    \/ \E th \in Threads, title \in WireTitles : BeginDelete(th, title)
    \/ \E th \in Threads : DeleteAcquire(th)
    \/ \E th \in Threads : DeleteExecute(th)

Spec == Init /\ [][Next]_vars

----------------------------------------------------------------------------
(* WikiFlaskServer: one request served at a time.  Each action is a whole      *)
(* handler, from taking the lock to the response.                              *)

FacadeIdle == db_lock = FreeLock /\ \A th \in Threads : pc[th] = "idle"

threadVars == <<db_lock, pc, req, current_revision, new_revision, tiddler, stale, started,
                own>>

\* route put_tiddler and _put_tiddler.  An empty title matches no route (the path
\* converter needs a character): 404.  A body that is not JSON makes
\* request.get_json() raise BadRequest: 400.  Neither reaches _put_tiddler.
WirePut(title, data) ==
    LET current == GetCurrentRevision(rows, title)
        rev     == NextRevision(current)
    IN  /\ FacadeIdle
        /\ current < MaxRevision
        /\ IF title = TitleEmpty \/ ~IsValidJson(data)
           THEN /\ ret' = [NoReturn EXCEPT !.op = "wire_put", !.title = title,
                                           !.arg = Some(data),
                                           !.before = GetTiddler(rows, title),
                                           !.status = IF title = TitleEmpty THEN 404 ELSE 400]
                /\ UNCHANGED <<rows, putCount, maxRev, lastPut>>
           ELSE /\ rows' = ReplaceRow(rows, title, PutRow(rows, title, data, rev))
                /\ putCount' = [putCount EXCEPT ![title] = @ + 1]
                /\ maxRev' = [maxRev EXCEPT ![title] = IF rev > @ THEN rev ELSE @]
                /\ lastPut' = [lastPut EXCEPT ![title] =
                                   Some([data |-> data, revision |-> rev])]
                /\ ret' = [NoReturn EXCEPT !.op = "wire_put", !.title = title,
                                           !.arg = Some(data),
                                           !.before = GetTiddler(rows, title),
                                           !.value = Some(rev), !.status = 204,
                                           !.etag = ETagValue(Quote(title, {}), rev)]
        /\ UNCHANGED <<threadVars, storeVars>>
        /\ UNCHANGED appVars

\* route get_tiddler and _get_tiddler
WireGet(title) ==
    /\ FacadeIdle
    /\ ret' = [NoReturn EXCEPT !.op = "wire_get", !.title = title,
                               !.value = GetTiddler(rows, title),
                               !.status = IF GetTiddler(rows, title) # None
                                          THEN 200 ELSE 404]
    /\ rows' = AfterSelect(rows)
    /\ UNCHANGED <<putCount, maxRev, lastPut, threadVars, storeVars>>
    /\ UNCHANGED appVars

\* route delete_tiddler and _delete_tiddler
WireDelete(title) ==
    /\ FacadeIdle
    /\ rows' = DeleteRow(rows, title)
    /\ putCount' = [putCount EXCEPT ![title] = 0]
    /\ lastPut' = [lastPut EXCEPT ![title] = None]
    /\ ret' = [NoReturn EXCEPT !.op = "wire_delete", !.title = title,
                               !.before = GetTiddler(rows, title), !.status = 204]
    /\ UNCHANGED <<maxRev, threadVars, storeVars>>
    /\ UNCHANGED appVars

\* route get_all_tiddlers and _get_all_tiddlers_flat
WireList ==
    /\ FacadeIdle
    /\ ret' = [NoReturn EXCEPT !.op = "wire_list", !.listing = GetAllTiddlersFlat(rows),
                               !.status = 200]
    /\ rows' = AfterSelect(rows)
    /\ UNCHANGED <<putCount, maxRev, lastPut, threadVars, storeVars>>
    /\ UNCHANGED appVars

\* route status: the static descriptor
WireStatus ==
    /\ FacadeIdle
    /\ ret' = [NoReturn EXCEPT !.op = "wire_status", !.status = 200,
                               !.value = Some([space |-> [recipe |-> "default"]])]
    /\ UNCHANGED <<rows, putCount, maxRev, lastPut, threadVars, storeVars>>
    /\ UNCHANGED appVars

----------------------------------------------------------------------------
(* WikiWindowAPI over its TiddlerStore: the local-call surface, one call at a  *)
(* time.  Each action is a whole call, which holds TiddlerStore.db_lock from   *)
(* its first statement to its return.                                          *)

\* WikiWindowAPI.put_tiddler and TiddlerStore.put_tiddler: the JSON is stored as
\* it was passed
LocalPut(title, tiddler_json) ==
    /\ IF IsValidJson(tiddler_json)
       THEN /\ store' = ReplaceRow(store, title, tiddler_json)
            /\ localPut' = [localPut EXCEPT ![title] = Some(tiddler_json)]
            /\ ret' = [NoReturn EXCEPT !.op = "put", !.title = title,
                                       !.arg = Some(tiddler_json),
                                       !.before = StoreGetTiddler(store, title),
                                       !.value = Some([success |-> TRUE])]
       ELSE \* json(?) raises "malformed JSON" while the statement is evaluated
            /\ ret' = [NoReturn EXCEPT !.op = "put", !.title = title,
                                       !.arg = Some(tiddler_json),
                                       !.before = StoreGetTiddler(store, title),
                                       !.raised = "OperationalError"]
            /\ UNCHANGED <<store, localPut>>
    /\ UNCHANGED <<facadeVars, wiki_metadata, clock, lastSave>>
    /\ UNCHANGED appVars

\* WikiWindowAPI.get_tiddler and TiddlerStore.get_tiddler
LocalGet(title) ==
    /\ ret' = [NoReturn EXCEPT !.op = "get", !.title = title,
                               !.value = StoreGetTiddler(store, title)]
    /\ store' = AfterSelect(store)
    /\ UNCHANGED <<facadeVars, wiki_metadata, clock, lastSave, localPut>>
    /\ UNCHANGED appVars

\* TiddlerStore.get_last_html_save
LocalGetSaveMarker ==
    /\ ret' = [NoReturn EXCEPT !.op = "get_marker", !.value = GetLastHtmlSave(wiki_metadata)]
    /\ wiki_metadata' = AfterSelect(wiki_metadata)
    /\ UNCHANGED <<facadeVars, store, clock, lastSave, localPut>>
    /\ UNCHANGED appVars

\* WikiWindowAPI.delete_tiddler and TiddlerStore.delete_tiddler
LocalDelete(title) ==
    /\ store' = DeleteRow(store, title)
    /\ localPut' = [localPut EXCEPT ![title] = None]
    /\ ret' = [NoReturn EXCEPT !.op = "delete", !.title = title,
                               !.before = StoreGetTiddler(store, title),
                               !.deleted = Deleted(store, title),
                               !.value = Some([status |-> "success"])]
    /\ UNCHANGED <<facadeVars, wiki_metadata, clock, lastSave>>
    /\ UNCHANGED appVars

\* WikiWindowAPI.save: empty content raises before anything is written; otherwise
\* the file is written and TiddlerStore.record_html_save stamps utcnow()
LocalSave(text) ==
    /\ IF text = ""
       THEN /\ ret' = [NoReturn EXCEPT !.op = "save", !.raised = "ValueError"]
            /\ UNCHANGED <<wiki_metadata, lastSave>>
       ELSE /\ wiki_metadata' = RecordHtmlSave(wiki_metadata, clock)
            /\ lastSave' = Some(TwTimestamp(clock))
            /\ ret' = [NoReturn EXCEPT !.op = "save", !.value = Some("Save successful")]
    /\ UNCHANGED <<facadeVars, store, clock, localPut>>
    /\ UNCHANGED appVars

\* Time passes
Tick ==
    /\ clock < MaxClock
    /\ clock' = clock + 1
    /\ UNCHANGED <<facadeVars, store, wiki_metadata, lastSave, localPut, ret>>
    /\ UNCHANGED appVars

\* WikiWindowAPI.get_updated_tiddlers and TiddlerStore.get_updated_tiddlers
Resolve(since_timestamp, current_tiddlers) ==
    LET result == GetUpdatedTiddlers(store, wiki_metadata, since_timestamp, current_tiddlers)
    IN  /\ ret' = [NoReturn EXCEPT !.op = "resolve", !.since = since_timestamp,
                                   !.live = current_tiddlers,
                                   !.baseline = Baseline(wiki_metadata, since_timestamp),
                                   !.value = Some([success |-> TRUE]),
                                   !.modifications = result.modifications,
                                   !.deletions = result.deletions]
        /\ store' = AfterSelect(store)
        /\ wiki_metadata' = AfterSelect(wiki_metadata)
        /\ UNCHANGED <<facadeVars, clock, lastSave, localPut>>
        /\ UNCHANGED appVars

\* TiddlerStore.put_tiddler when the storage fails: at the REPLACE statement
\* (nothing is written) or at commit.  No handler rolls back, so after a failed
\* commit the written row stays in the open transaction of the connection, which
\* its later statements read, unless SQLite itself rolled the transaction back.
LocalPutFaulty(title, tiddler_json, fault) ==
    /\ IsValidJson(tiddler_json)
    /\ store' = IF fault = "commit_pending"
                THEN ReplaceRow(store, title, tiddler_json)
                ELSE store
    /\ localPut' = IF fault = "commit_pending"
                   THEN [localPut EXCEPT ![title] = Some(tiddler_json)]
                   ELSE localPut
    /\ ret' = [NoReturn EXCEPT !.op = "put", !.title = title, !.arg = Some(tiddler_json),
                               !.before = StoreGetTiddler(store, title),
                               !.raised = "sqlite3.Error"]
    /\ UNCHANGED <<facadeVars, wiki_metadata, clock, lastSave>>
    /\ UNCHANGED appVars

\* TiddlerStore.delete_tiddler when the storage fails, in the same three ways
LocalDeleteFaulty(title, fault) ==
    /\ store' = IF fault = "commit_pending" THEN DeleteRow(store, title) ELSE store
    /\ localPut' = IF fault = "commit_pending"
                   THEN [localPut EXCEPT ![title] = None]
                   ELSE localPut
    /\ ret' = [NoReturn EXCEPT !.op = "delete", !.title = title,
                               !.before = StoreGetTiddler(store, title),
                               !.raised = "sqlite3.Error"]
    /\ UNCHANGED <<facadeVars, wiki_metadata, clock, lastSave>>
    /\ UNCHANGED appVars

----------------------------------------------------------------------------
(* The TiddlerStore and its resolver under one caller (SpecStore) *)

StoreTitles == {TitleA, TitleB, TitleSys}

\* Tiddler JSON passed to the local put: without modified, and modified at tick 1
\* and at tick 2
StoreJson ==
    { [text |-> "x"],
      [text |-> "x", modified |-> TwTimestamp(1)],
      [text |-> "x", modified |-> TwTimestamp(2)] }

\* since_timestamp: absent, canonical, ISO-8601, and a text that is no timestamp
SinceValues ==
    {None, Some(TwTimestamp(0)), Some(TwTimestamp(1)), Some(IsoTimestamp(1)), Some(<<"x">>)}

\* current_tiddlers: absent, and lists with a title the store may lack and with
\* system titles
LiveValues ==
    {None, Some({TitleA, TitleB, TitleC}), Some({TitleB, TitleSys, <<"$", ":", "/", "X">>})}

NextStore ==
    \/ \E title \in StoreTitles, tiddler_json \in StoreJson : LocalPut(title, tiddler_json)
    \/ \E title \in StoreTitles : LocalGet(title)
    \/ \E title \in StoreTitles : LocalDelete(title)
    \/ \E text \in {"", "html"} : LocalSave(text)
    \/ Tick
    \/ \E since_timestamp \in SinceValues, current_tiddlers \in LiveValues :
           Resolve(since_timestamp, current_tiddlers)

SpecStore == Init /\ [][NextStore]_vars

----------------------------------------------------------------------------
(* Both surfaces of one document, one call at a time (SpecSys) *)

SysTitles == {TitleSys, TitleNear}

\* Wire payloads: one with a revision of the caller's, extension fields and a
\* top-level field that names no column
SysPayloads ==
    { [text |-> "x", modified |-> TwTimestamp(1)],
      [text |-> "y", revision |-> 7, color |-> "red",
       fields |-> [dict |-> [caption |-> "c"]]] }

\* Tiddler JSON of the local put: one with a revision of the caller's and a field
\* TiddlyWiki does not define
SysJson ==
    { [text |-> "x", modified |-> TwTimestamp(1)],
      [text |-> "y", revision |-> 7, color |-> "red"] }

SysLive == {None, Some({TitleSys, TitleNear, TitleC})}

NextSys ==
    \/ \E title \in SysTitles, data \in SysPayloads : WirePut(title, data)
    \/ \E title \in SysTitles : WireGet(title)
    \/ \E title \in SysTitles : WireDelete(title)
    \/ WireList
    \/ WireStatus
    \/ \E title \in SysTitles, tiddler_json \in SysJson : LocalPut(title, tiddler_json)
    \/ \E title \in SysTitles : LocalGet(title)
    \/ LocalGetSaveMarker
    \/ \E title \in SysTitles : LocalDelete(title)
    \/ LocalSave("html")
    \/ \E since_timestamp \in {None, Some(TwTimestamp(0))}, current_tiddlers \in SysLive :
           Resolve(since_timestamp, current_tiddlers)

SpecSys == Init /\ [][NextSys]_vars

----------------------------------------------------------------------------
(* The facade under one client, with bodies of every shape (SpecWire) *)

BodyTitles == {TitleA, TitleSys}

\* JSON bodies of a wire PUT: tags as a list (with a space, with a tab) and as a
\* string; fields as an object, as a string whose content is JSON text, as a plain
\* string, a number, a boolean and an array; a top-level key that names no column;
\* and fields whose keys repeat the names of columns
WireBodies ==
    { [text |-> "x", tags |-> [list |-> << <<"a", " ", "b">>, <<"c">> >>]],
      [text |-> "x", tags |-> [str |-> <<"[", "[", "a", " ", "b", "]", "]", " ", "c">>]],
      [text |-> "x", tags |-> [list |-> << <<"a", "\t", "b">>, <<"c">> >>]],
      [text |-> "y", modified |-> TwTimestamp(1), fields |-> [dict |-> [caption |-> "c"]]],
      [text |-> "y", fields |-> [json |-> [dict |-> [caption |-> "c"]]]],
      [fields |-> [raw |-> "plain"]],
      [fields |-> [num |-> 5]],
      [fields |-> [bool |-> TRUE]],
      [fields |-> [list |-> <<1, 2>>]],
      [text |-> "x", color |-> "red"],
      [text |-> "x", type |-> "t", fields |-> [dict |-> [type |-> "u", caption |-> "c"]]] }

\* Bodies put under the system title
SystemBodies ==
    { [text |-> "x", tags |-> [list |-> << <<"a", " ", "b">>, <<"c">> >>]],
      [text |-> "y", modified |-> TwTimestamp(1), fields |-> [dict |-> [caption |-> "c"]]] }

NextWire ==
    \/ \E data \in WireBodies : WirePut(TitleA, data)
    \/ \E data \in SystemBodies : WirePut(TitleSys, data)
    \/ \E title \in BodyTitles : WireGet(title)
    \/ \E title \in BodyTitles : WireDelete(title)
    \/ WireList

SpecWire == Init /\ [][NextWire]_vars

----------------------------------------------------------------------------
(* Both surfaces with titles and payloads that are invalid, and with storage   *)
(* failures (SpecErr)                                                          *)

ErrTitles == {TitleA, TitleEmpty}

\* Tiddler JSON of the local put, one of them not JSON
ErrJson == { [text |-> "x", modified |-> TwTimestamp(1)], [text |-> "y"], MalformedJson }

\* Bodies of the wire PUT, one of them not JSON
ErrBodies == { [text |-> "x"], MalformedJson }

\* Where the storage fails: at the write statement, at commit with the
\* transaction rolled back by SQLite, at commit with the transaction left open
Faults == {"execute", "commit_rolled_back", "commit_pending"}

NextErr ==
    \/ \E title \in ErrTitles, data \in ErrBodies : WirePut(title, data)
    \/ \E title \in ErrTitles : WireGet(title)
    \/ \E title \in ErrTitles, tiddler_json \in ErrJson : LocalPut(title, tiddler_json)
    \/ \E title \in ErrTitles : LocalGet(title)
    \/ \E title \in ErrTitles : LocalDelete(title)
    \/ \E title \in ErrTitles, tiddler_json \in ErrJson, fault \in Faults :
           LocalPutFaulty(title, tiddler_json, fault)
    \/ \E title \in ErrTitles, fault \in Faults : LocalDeleteFaulty(title, fault)
    \/ LocalSave("html")
    \/ Resolve(None, None)

SpecErr == Init /\ [][NextErr]_vars

----------------------------------------------------------------------------
(* MultiWikiApp, WindowManager and the WikiWindowAPI instances of the wiki     *)
(* windows: open_wiki, the closing event, garbage collection, and the calls    *)
(* the windows make on their WikiWindowAPI from the js_api threads             *)

coreVars == <<facadeVars, store, wiki_metadata, lastSave, localPut, sharedFileVars,
              catalogVars>>

Instances == 1 .. MaxInstances

DocOf(i) == api_instances[i].wiki_id

\* The page a new window starts to load
NewPage == [loaded |-> FALSE, held |-> {}, preload |-> {}, booted |-> FALSE]

\* The tiddler a wiki window puts, with the modified field the page stamps
WindowTiddler(now) == [text |-> "x", modified |-> TwTimestamp(now)]

\* current_tiddlers a wiki window passes to get_updated_tiddlers
ResolveLive == Some({TitleA})

\* open_wiki on Android: self._current_wiki_id = wiki_id, the URL is returned
OpenWikiMobile(wiki_id) ==
    /\ is_android_env
    /\ current_wiki_id' = wiki_id
    /\ UNCHANGED <<is_android_env, wiki_windows, api_instances, wiki_api, wiki_html,
                   db_files, store_lock, api_pc, api_req>>
    /\ UNCHANGED <<coreVars, client, clock, ret>>

\* open_wiki on the desktop: wiki_api = WikiWindowAPI(wiki_id, ...), whose
\* TiddlerStore connects to the database file of the wiki, makes its own RLock
\* and runs _init_database (CREATE TABLE IF NOT EXISTS)
OpenWikiConstruct(wiki_id) ==
    LET i == Cardinality(DOMAIN api_instances) + 1
    IN  /\ ~is_android_env
        /\ wiki_api = None
        /\ i <= MaxInstances
        /\ api_instances' = [k \in DOMAIN api_instances \cup {i} |->
                                IF k = i
                                THEN [wiki_id |-> wiki_id, open |-> TRUE, window |-> "none"]
                                ELSE api_instances[k]]
        /\ store_lock' = [k \in DOMAIN store_lock \cup {i} |->
                             IF k = i THEN FreeLock ELSE store_lock[k]]
        /\ wiki_api' = Some(i)
        /\ UNCHANGED <<is_android_env, current_wiki_id, wiki_windows, wiki_html,
                       db_files, api_pc, api_req>>
        /\ UNCHANGED <<coreVars, client, clock, ret>>

\* open_wiki on the desktop: create_wiki_window(wiki_id, ..., js_api=wiki_api)
\* returns the existing window of a tracked wiki_id and otherwise creates and
\* tracks a window with the js_api; open_wiki returns and drops wiki_api
OpenWikiCreateWindow ==
    /\ wiki_api # None
    /\ LET i == wiki_api[1]
       IN  IF DocOf(i) \in DOMAIN wiki_windows
           THEN UNCHANGED <<wiki_windows, api_instances, client>>
           ELSE /\ wiki_windows' = [d \in DOMAIN wiki_windows \cup {DocOf(i)} |->
                                       IF d = DocOf(i) THEN i ELSE wiki_windows[d]]
                /\ api_instances' = [api_instances EXCEPT ![i].window = "open"]
                /\ client' = [k \in DOMAIN client \cup {i} |->
                                 IF k = i THEN NewPage ELSE client[k]]
    /\ wiki_api' = None
    /\ UNCHANGED <<is_android_env, current_wiki_id, wiki_html, db_files, store_lock,
                   api_pc, api_req>>
    /\ UNCHANGED <<coreVars, clock, ret>>

\* The user closes the window of WikiWindowAPI i: its on_closing deletes the
\* tracking entry of the wiki_id the window was created for, nothing else
WindowClosing(i) ==
    /\ i \in DOMAIN api_instances
    /\ api_instances[i].window = "open"
    /\ wiki_windows' = [d \in DOMAIN wiki_windows \ {DocOf(i)} |-> wiki_windows[d]]
    /\ api_instances' = [api_instances EXCEPT ![i].window = "closed"]
    /\ UNCHANGED <<is_android_env, current_wiki_id, wiki_api, wiki_html, db_files,
                   store_lock, api_pc, api_req>>
    /\ UNCHANGED <<coreVars, client, clock, ret>>

\* A WikiWindowAPI is referenced by the local of open_wiki, by its window, and by
\* the call a js_api thread makes on it
Referenced(i) ==
    \/ wiki_api = Some(i)
    \/ api_instances[i].window = "open"
    \/ \E th \in Threads : api_pc[th] # "idle" /\ api_req[th].inst = i

\* The interpreter frees an unreferenced WikiWindowAPI at a time of its choosing:
\* TiddlerStore.__del__ calls close(), which closes db_conn
Collect(i) ==
    /\ i \in DOMAIN api_instances
    /\ api_instances[i].open
    /\ ~Referenced(i)
    /\ api_instances' = [api_instances EXCEPT ![i].open = FALSE]
    /\ UNCHANGED <<is_android_env, current_wiki_id, wiki_windows, wiki_api, wiki_html,
                   db_files, store_lock, api_pc, api_req>>
    /\ UNCHANGED <<coreVars, client, clock, ret>>

\* A wiki window calls put_tiddler, delete_tiddler or get_updated_tiddlers of its
\* WikiWindowAPI
ApiBegin(th, i, op) ==
    /\ api_pc[th] = "idle"
    /\ i \in DOMAIN api_instances
    /\ api_instances[i].window = "open"
    /\ api_pc' = [api_pc EXCEPT ![th] = "enter"]
    /\ api_req' = [api_req EXCEPT ![th] =
                       [NoCall EXCEPT !.inst = i, !.op = op,
                                      !.tiddler = IF op = "put" THEN WindowTiddler(clock)
                                                  ELSE NoCall.tiddler]]
    /\ UNCHANGED <<is_android_env, current_wiki_id, wiki_windows, api_instances, wiki_api,
                   wiki_html, db_files, store_lock>>
    /\ UNCHANGED <<coreVars, client, clock, ret>>

\* WikiWindowAPI.save up to the call of record_html_save: ValueError for an empty
\* text, otherwise the text is written to the wiki file
ApiSave(th, i, text) ==
    /\ api_pc[th] = "idle"
    /\ i \in DOMAIN api_instances
    /\ api_instances[i].window = "open"
    /\ IF text = ""
       THEN /\ ret' = [NoReturn EXCEPT !.op = "save", !.wiki_id = DocOf(i),
                                       !.raised = "ValueError"]
            /\ UNCHANGED <<wiki_html, api_pc, api_req>>
       ELSE /\ wiki_html' = [wiki_html EXCEPT ![DocOf(i)] =
                                 [text |-> text,
                                  tiddlers |-> DOMAIN db_files[DbPath(DocOf(i))].tiddlers]]
            /\ api_pc' = [api_pc EXCEPT ![th] = "enter"]
            /\ api_req' = [api_req EXCEPT ![th] = [NoCall EXCEPT !.inst = i, !.op = "save"]]
            /\ UNCHANGED ret
    /\ UNCHANGED <<is_android_env, current_wiki_id, wiki_windows, api_instances, wiki_api,
                   db_files, store_lock>>
    /\ UNCHANGED <<coreVars, client, clock>>

\* TiddlerStore: with self.db_lock, the lock of this instance
ApiAcquire(th) ==
    /\ api_pc[th] = "enter"
    /\ CanAcquire(store_lock[api_req[th].inst], th)
    /\ store_lock' = [store_lock EXCEPT ![api_req[th].inst] = Acquire(@, th)]
    /\ api_pc' = [api_pc EXCEPT ![th] = "exec"]
    /\ UNCHANGED <<is_android_env, current_wiki_id, wiki_windows, api_instances, wiki_api,
                   wiki_html, db_files, api_req>>
    /\ UNCHANGED <<coreVars, client, clock, ret>>

\* TiddlerStore: the statements inside the lock (put_tiddler, delete_tiddler,
\* record_html_save) on the database file of the instance, commit, and the lock
\* given back
ApiExecute(th) ==
    LET i    == api_req[th].inst
        op   == api_req[th].op
        f    == DbPath(DocOf(i))
        file == db_files[f]
    IN  /\ api_pc[th] = "exec"
        /\ op # "resolve"
        /\ db_files' =
              [db_files EXCEPT ![f] =
                  CASE op = "put" ->
                          [file EXCEPT !.tiddlers = ReplaceRow(@, TitleA, api_req[th].tiddler)]
                    [] op = "delete" ->
                          [file EXCEPT !.tiddlers = DeleteRow(@, TitleA)]
                    [] op = "save" ->
                          [file EXCEPT !.wiki_metadata = RecordHtmlSave(@, clock)]]
        /\ ret' = IF op = "save"
                  THEN [NoReturn EXCEPT !.op = "save", !.wiki_id = DocOf(i), !.now = clock,
                                        !.value = Some("Save successful")]
                  ELSE ret
        /\ store_lock' = [store_lock EXCEPT ![i] = Release(@, th)]
        /\ api_pc' = [api_pc EXCEPT ![th] = "idle"]
        /\ api_req' = [api_req EXCEPT ![th] = NoCall]
        /\ UNCHANGED <<is_android_env, current_wiki_id, wiki_windows, api_instances,
                       wiki_api, wiki_html>>
        /\ UNCHANGED <<coreVars, client, clock>>

\* get_updated_tiddlers(None, current_tiddlers) inside the lock, first part: the
\* Save Marker is read (get_last_html_save, the lock taken again by the same
\* thread and given back) and the titles to report as modified are selected
ApiResolveModified(th) ==
    LET i    == api_req[th].inst
        file == db_files[DbPath(DocOf(i))]
    IN  /\ api_pc[th] = "exec"
        /\ api_req[th].op = "resolve"
        /\ CanAcquire(store_lock[i], th)
        /\ store_lock' = [store_lock EXCEPT ![i] = Release(Acquire(@, th), th)]
        /\ api_req' = [api_req EXCEPT
                          ![th].baseline = Baseline(file.wiki_metadata, None),
                          ![th].modifications =
                              GetUpdatedTiddlers(file.tiddlers, file.wiki_metadata,
                                                 None, ResolveLive).modifications]
        /\ api_pc' = [api_pc EXCEPT ![th] = "exec2"]
        /\ UNCHANGED <<is_android_env, current_wiki_id, wiki_windows, api_instances,
                       wiki_api, wiki_html, db_files>>
        /\ UNCHANGED <<coreVars, client, clock, ret>>

\* get_updated_tiddlers, second part: on the path with a baseline _detect_deletions
\* selects the stored titles; the result is returned and the lock given back
ApiResolveDeletions(th) ==
    LET i    == api_req[th].inst
        file == db_files[DbPath(DocOf(i))]
    IN  /\ api_pc[th] = "exec2"
        /\ ret' = [NoReturn EXCEPT
                      !.op = "resolve", !.wiki_id = DocOf(i), !.live = ResolveLive,
                      !.baseline = api_req[th].baseline,
                      !.modifications = api_req[th].modifications,
                      !.deletions = IF api_req[th].baseline = None THEN {}
                                    ELSE DetectDeletions(file.tiddlers, ResolveLive)]
        /\ store_lock' = [store_lock EXCEPT ![i] = Release(@, th)]
        /\ api_pc' = [api_pc EXCEPT ![th] = "idle"]
        /\ api_req' = [api_req EXCEPT ![th] = NoCall]
        /\ UNCHANGED <<is_android_env, current_wiki_id, wiki_windows, api_instances,
                       wiki_api, wiki_html, db_files>>
        /\ UNCHANGED <<coreVars, client, clock>>

\* MultiWikiApp.save, the saver of the page the main window shows: ValueError for
\* an empty text or when no wiki is current, otherwise the text is written to the
\* file of the current wiki
AppSave(text) ==
    /\ IF text = "" \/ current_wiki_id = NoWiki
       THEN /\ ret' = [NoReturn EXCEPT !.op = "app_save", !.wiki_id = current_wiki_id,
                                       !.raised = "ValueError"]
            /\ UNCHANGED wiki_html
       ELSE /\ wiki_html' = [wiki_html EXCEPT ![current_wiki_id] =
                                 [text |-> text,
                                  tiddlers |-> DOMAIN db_files[DbPath(current_wiki_id)].tiddlers]]
            /\ ret' = [NoReturn EXCEPT !.op = "app_save", !.wiki_id = current_wiki_id,
                                       !.now = clock, !.value = Some("Save successful")]
    /\ UNCHANGED <<is_android_env, current_wiki_id, wiki_windows, api_instances, wiki_api,
                   db_files, store_lock, api_pc, api_req>>
    /\ UNCHANGED <<coreVars, client, clock>>

\* close_wiki_window: the tracking entry is deleted; the window itself stays as
\* it is (pywebview has no close method here)
CloseWikiWindow(wiki_id) ==
    /\ wiki_id \in DOMAIN wiki_windows
    /\ wiki_windows' = [d \in DOMAIN wiki_windows \ {wiki_id} |-> wiki_windows[d]]
    /\ UNCHANGED <<is_android_env, current_wiki_id, api_instances, wiki_api, wiki_html,
                   db_files, store_lock, api_pc, api_req>>
    /\ UNCHANGED <<coreVars, client, clock, ret>>

\* The methods class TiddlerStore defines
TiddlerStoreMethods ==
    {"__init__", "_iso_to_tiddlywiki_timestamp", "_init_database", "record_html_save",
     "get_last_html_save", "get_tiddler", "put_tiddler", "delete_tiddler",
     "get_updated_tiddlers", "_detect_deletions", "close", "__del__"}

\* _inject_tiddlers_and_boot: tiddlers = js_api._tiddler_store
\* .get_all_tiddlers_as_list(), None when the attribute lookup raises
InjectedTiddlers(table) ==
    IF "get_all_tiddlers_as_list" \in TiddlerStoreMethods THEN Some(DOMAIN table) ELSE None

\* The loaded event of the window of WikiWindowAPI i: on_loaded calls
\* _inject_tiddlers_and_boot, which pushes the tiddlers of the store to
\* $tw.preloadTiddlers and boots, and on any exception boots without them
OnLoaded(i) ==
    LET table    == db_files[DbPath(DocOf(i))].tiddlers
        tiddlers == InjectedTiddlers(table)
    IN  /\ i \in DOMAIN client
        /\ api_instances[i].window = "open"
        /\ ~client[i].loaded
        /\ client' = [client EXCEPT ![i] =
                         [loaded |-> TRUE, held |-> DOMAIN table,
                          preload |-> IF tiddlers = None THEN {} ELSE tiddlers[1],
                          booted |-> TRUE]]
        /\ UNCHANGED <<is_android_env, current_wiki_id, wiki_windows, api_instances,
                       wiki_api, wiki_html, db_files, store_lock, api_pc, api_req>>
        /\ UNCHANGED <<coreVars, clock, ret>>

\* The calls of a wiki window that run inside the lock from the start
ApiOps == {"put", "delete", "resolve"}

\* payload["text"] of a save
SaveTexts == {"", "new"}

NextApp ==
    \/ \E wiki_id \in Docs : OpenWikiMobile(wiki_id)
    \/ \E wiki_id \in Docs : OpenWikiConstruct(wiki_id)
    \/ OpenWikiCreateWindow
    \/ \E i \in Instances : WindowClosing(i)
    \/ \E i \in Instances : Collect(i)
    \/ \E th \in Threads, i \in Instances, op \in ApiOps : ApiBegin(th, i, op)
    \/ \E th \in Threads, i \in Instances, text \in SaveTexts : ApiSave(th, i, text)
    \/ \E th \in Threads : ApiAcquire(th)
    \/ \E th \in Threads : ApiExecute(th)
    \/ \E th \in Threads : ApiResolveModified(th)
    \/ \E th \in Threads : ApiResolveDeletions(th)
    \/ \E text \in SaveTexts : AppSave(text)

SpecApp == InitApp /\ [][NextApp]_vars

\* The steps the process takes by itself once they are possible: open_wiki runs
\* on to its return, a call waiting for a free lock takes it, a call inside the
\* lock finishes.  Opening and closing windows, the calls of the windows and the
\* moment the interpreter frees an object are not scheduled by the program.
SpecAppFair ==
    /\ InitApp
    /\ [][NextApp]_vars
    /\ WF_vars(OpenWikiCreateWindow)
    /\ \A th \in Threads :
          /\ WF_vars(ApiAcquire(th))
          /\ WF_vars(ApiExecute(th))
          /\ WF_vars(ApiResolveModified(th))
          /\ WF_vars(ApiResolveDeletions(th))

----------------------------------------------------------------------------
(* One wiki window and the calls of its page on its WikiWindowAPI, from the    *)
(* js_api threads, while time passes                                           *)

\* The wiki whose window is open
SyncWiki == 1

NextSync ==
    \/ OpenWikiConstruct(SyncWiki)
    \/ OpenWikiCreateWindow
    \/ \E th \in Threads, op \in ApiOps : ApiBegin(th, 1, op)
    \/ \E th \in Threads : ApiSave(th, 1, "new")
    \/ \E th \in Threads : ApiAcquire(th)
    \/ \E th \in Threads : ApiExecute(th)
    \/ \E th \in Threads : ApiResolveModified(th)
    \/ \E th \in Threads : ApiResolveDeletions(th)
    \/ Tick

SpecSync == Init /\ [][NextSync]_vars

\* A thread that can take the lock for as long as it waits takes it, and a
\* thread inside the lock runs on; which of several waiting threads gets a lock
\* that is given back is not defined (threading.RLock), so nothing stronger
SpecSyncFair ==
    /\ Init
    /\ [][NextSync]_vars
    /\ WF_vars(OpenWikiCreateWindow)
    /\ \A th \in Threads :
          /\ WF_vars(ApiAcquire(th))
          /\ WF_vars(ApiExecute(th))
          /\ WF_vars(ApiResolveModified(th))
          /\ WF_vars(ApiResolveDeletions(th))

----------------------------------------------------------------------------
(* The window manager with every call it offers *)

NextWin ==
    \/ \E wiki_id \in Docs : OpenWikiConstruct(wiki_id)
    \/ OpenWikiCreateWindow
    \/ \E i \in Instances : WindowClosing(i)
    \/ \E wiki_id \in Docs : CloseWikiWindow(wiki_id)
    \/ \E i \in Instances : Collect(i)
    \/ \E i \in Instances : OnLoaded(i)
    \/ \E th \in Threads, i \in Instances : ApiBegin(th, i, "put")
    \/ \E th \in Threads : ApiAcquire(th)
    \/ \E th \in Threads : ApiExecute(th)

SpecWin == Init /\ [][NextWin]_vars

----------------------------------------------------------------------------
(* One document with both classes constructed on its database file             *)
(* {wiki_id}_tiddlers.db: each creates the table tiddlers IF NOT EXISTS with   *)
(* its own columns, so the table has the columns of whichever came first       *)

allButRet == <<facadeVars, storeVars, appVars>>

\* WikiFlaskServer.__init__: connect, CREATE TABLE IF NOT EXISTS tiddlers (title,
\* bag, ..., revision, ..., fields)
FacadeInit ==
    /\ "facade" \notin surfaces
    /\ surfaces' = surfaces \cup {"facade"}
    /\ tiddlers_schema' = IF tiddlers_schema = "none" THEN "columns" ELSE tiddlers_schema
    /\ ret' = [NoReturn EXCEPT !.op = "facade_init"]
    /\ UNCHANGED <<facadeVars, storeVars, is_android_env, current_wiki_id, wiki_windows,
                   api_instances, wiki_api, wiki_html, db_files, store_lock, api_pc,
                   api_req, client, catalogVars>>

\* TiddlerStore.__init__: connect, CREATE TABLE IF NOT EXISTS tiddlers (title,
\* tiddler_data), then CREATE INDEX ... ON tiddlers(json_extract(tiddler_data,
\* '$.modified')), which raises on a table without the column tiddler_data
StoreInit ==
    /\ "store" \notin surfaces
    /\ IF tiddlers_schema = "columns"
       THEN /\ ret' = [NoReturn EXCEPT !.op = "store_init", !.raised = "OperationalError"]
            /\ UNCHANGED <<surfaces, tiddlers_schema>>
       ELSE /\ surfaces' = surfaces \cup {"store"}
            /\ tiddlers_schema' = "json"
            /\ ret' = [NoReturn EXCEPT !.op = "store_init"]
    /\ UNCHANGED <<facadeVars, storeVars, is_android_env, current_wiki_id, wiki_windows,
                   api_instances, wiki_api, wiki_html, db_files, store_lock, api_pc,
                   api_req, client, catalogVars>>

\* A statement of the facade on a table without its columns raises
\* sqlite3.OperationalError, which Flask answers with 500
FacadeFails(op, title) ==
    /\ ret' = [NoReturn EXCEPT !.op = op, !.title = title, !.status = 500,
                               !.raised = "OperationalError"]
    /\ UNCHANGED allButRet

DocWirePut(title, data) ==
    /\ "facade" \in surfaces
    /\ IF tiddlers_schema = "columns" THEN WirePut(title, data)
       ELSE FacadeFails("wire_put", title)

DocWireGet(title) ==
    /\ "facade" \in surfaces
    /\ IF tiddlers_schema = "columns" THEN WireGet(title)
       ELSE FacadeFails("wire_get", title)

DocWireList ==
    /\ "facade" \in surfaces
    /\ IF tiddlers_schema = "columns" THEN WireList
       ELSE FacadeFails("wire_list", <<>>)

\* The WikiWindowAPI of the document exists once its TiddlerStore was constructed
DocLocalPut(title, tiddler_json) ==
    /\ "store" \in surfaces
    /\ LocalPut(title, tiddler_json)

DocLocalGet(title) ==
    /\ "store" \in surfaces
    /\ LocalGet(title)

DocResolve ==
    /\ "store" \in surfaces
    /\ Resolve(None, None)

DocJson == { [text |-> "y", modified |-> TwTimestamp(1)] }

DocBodies == { [text |-> "x"] }

NextDoc ==
    \/ FacadeInit
    \/ StoreInit
    \/ \E title \in WireTitles, data \in DocBodies : DocWirePut(title, data)
    \/ \E title \in WireTitles : DocWireGet(title)
    \/ DocWireList
    \/ \E title \in WireTitles, tiddler_json \in DocJson : DocLocalPut(title, tiddler_json)
    \/ \E title \in WireTitles : DocLocalGet(title)
    \/ DocResolve

SpecDoc == Init /\ [][NextDoc]_vars

----------------------------------------------------------------------------
(* Claims about the facade under concurrent requests (Spec) *)

\* C1: for any title, while only puts are applied to it, the n-th put returns
\* revision n: the revision _put_tiddler returns equals the number of puts
\* executed on the title since it was last absent (1 for the first, previous + 1
\* for each later one).
C1_NthPutReturnsN ==
    \A th \in Threads :
        pc[th] = "put_ret" => new_revision[th] = putCount[req[th].title]

C1_Witness ==
    \E th \in Threads :
        /\ pc[th] = "put_ret"
        /\ new_revision[th] = 2
        /\ putCount[req[th].title] = 2

\* C2 (as claimed): over the whole history of puts and deletes of a title, every
\* put is assigned a revision strictly greater than every revision assigned to
\* that title before, also when the title was deleted in between.
C2_RevisionsIncreaseAcrossDeletes ==
    [][\A th \in Threads :
          (pc[th] = "put_exec" /\ pc'[th] = "put_ret")
              => new_revision'[th] > maxRev[req[th].title]]_vars

\* C3: concurrent puts are safe: the revision a put read is still the stored one
\* when it writes (read, increment and write are one critical section), every
\* stored revision equals the number of puts executed on the title (no lost
\* increment), and two puts of one title that are in flight together, with no
\* delete of the title after either write, return different revisions, none
\* above the number of puts executed.
C3_ConcurrentPutSafety ==
    /\ \A th \in Threads :
          pc[th] = "put_exec"
              => current_revision[th] = GetCurrentRevision(rows, req[th].title)
    /\ \A t \in DOMAIN rows : rows[t].revision = putCount[t]
    /\ \A th \in Threads :
          (pc[th] \in {"put_ret", "put_resp"} /\ ~stale[th])
              => new_revision[th] \in 1 .. putCount[req[th].title]
    /\ \A th1, th2 \in Threads :
          (/\ th1 # th2
           /\ pc[th1] \in {"put_ret", "put_resp"}
           /\ pc[th2] \in {"put_ret", "put_resp"}
           /\ req[th1].title = req[th2].title
           /\ ~stale[th1]
           /\ ~stale[th2])
              => new_revision[th1] # new_revision[th2]

C3_Witness ==
    \E th1, th2 \in Threads :
        /\ th1 # th2
        /\ pc[th1] = "put_resp"
        /\ pc[th2] = "put_resp"
        /\ req[th1].title = req[th2].title
        /\ ~stale[th1]
        /\ ~stale[th2]
        /\ new_revision[th1] = 1
        /\ new_revision[th2] = 2
        /\ \E t \in DOMAIN rows : t # req[th1].title /\ rows[t].revision = 1

\* The record of a title is the complete record of the put p = [data, revision]:
\* the revision that put returned, and exactly the data columns of its payload.
IsCompleteRecord(r, title, p) ==
    /\ r.title = title
    /\ r.revision = p.revision
    /\ \A c \in DataColumns :
          /\ (c \in DOMAIN r) <=> (c \in DOMAIN p.data)
          /\ (c \in DOMAIN r) => r[c] = p.data[c]

\* C4: a put is atomic for readers: in every reachable state the record of a
\* title is absent exactly when no put of it is in effect, and otherwise is the
\* complete record of the latest executed put (its fields with its revision,
\* never the fields of one put with the revision of another); a GET returns
\* that record.
C4_PutAtomicForReaders ==
    /\ \A t \in Titles :
          IF lastPut[t] = None THEN t \notin DOMAIN rows
          ELSE t \in DOMAIN rows /\ IsCompleteRecord(rows[t], t, lastPut[t][1])
    /\ \A th \in Threads :
          pc[th] = "get_ret" =>
              IF lastPut[req[th].title] = None THEN tiddler[th] = None
              ELSE /\ tiddler[th] # None
                   /\ IsCompleteRecord(tiddler[th][1], req[th].title,
                                       lastPut[req[th].title][1])

C4_Witness ==
    \E th, w \in Threads :
        /\ pc[th] = "get_ret"
        /\ tiddler[th] # None
        /\ tiddler[th][1].revision = 2
        /\ pc[w] = "put_lock"
        /\ req[w].title = req[th].title
        /\ req[w].data # lastPut[req[th].title][1].data

----------------------------------------------------------------------------
(* Claims about the two surfaces and the resolver (SpecSys, SpecStore) *)

\* The revision of an optional stored record, 0 when there is none
PriorRevision(before) ==
    IF before # None /\ "revision" \in DOMAIN before[1] THEN before[1].revision ELSE 0

\* C5 (as claimed): a revision inside the put payload is ignored on every put
\* surface: after a put whose payload carries a revision, the stored record of
\* the title has revision (revision stored before the put, 0 if absent) + 1,
\* through the wire PUT and through the local putTiddler.
C5_CallerRevisionIgnored ==
    /\ (ret.op = "wire_put" /\ "revision" \in DOMAIN ret.arg[1])
          => /\ ret.title \in DOMAIN rows
             /\ rows[ret.title].revision = PriorRevision(ret.before) + 1
    /\ (ret.op = "put" /\ "revision" \in DOMAIN ret.arg[1])
          => /\ ret.title \in DOMAIN store
             /\ "revision" \in DOMAIN store[ret.title]
             /\ store[ret.title].revision = PriorRevision(ret.before) + 1

\* The non-system titles of a set
NonSystem(titles) == {t \in titles : ~StartsWith(t, SystemPrefix)}

\* C6 (as claimed): whenever liveTitles is supplied, for every sinceTimestamp and
\* every Save Marker state, deleted = (non-system liveTitles) minus (non-system
\* titles in the store); when liveTitles is absent, deleted is empty.
C6_DeletedSet ==
    ret.op = "resolve" =>
        ret.deletions = IF ret.live = None THEN {}
                        ELSE NonSystem(ret.live[1]) \ NonSystem(DOMAIN store)

\* The canonical form of a supplied sinceTimestamp: of an ISO-8601 text the
\* canonical timestamp of the same instant, of any other text the text itself
CanonicalOf(s) ==
    IF \E n \in 0 .. 99 : s = IsoTimestamp(n)
    THEN TwTimestamp(CHOOSE n \in 0 .. 99 : s = IsoTimestamp(n))
    ELSE s

\* The non-system titles stored with a modified value strictly greater than b
StoredAfter(b) ==
    {t \in NonSystem(DOMAIN store) :
        "modified" \in DOMAIN store[t] /\ TextLess(b, store[t].modified)}

HasMarker == "last_html_save" \in DOMAIN wiki_metadata

C8_ColdStart ==
    (ret.op = "resolve" /\ ret.since = None /\ ret.live = None /\ lastSave = None)
        => /\ ret.modifications = NonSystem(DOMAIN store)
           /\ ret.deletions = {}

C8_Witness ==
    /\ ret.op = "resolve"
    /\ ret.since = None
    /\ ret.live = None
    /\ lastSave = None
    /\ DOMAIN store = {TitleA, TitleB, TitleSys}
    /\ store[TitleA] = [text |-> "x"]
    /\ "modified" \in DOMAIN store[TitleB]
    /\ ret.modifications = {TitleA, TitleB}

----------------------------------------------------------------------------
(* Claims about delete, NotFound and the validator token *)

\* C11: delete is idempotent: TiddlerStore.delete_tiddler answers true exactly when
\* a record of the title existed; the call never raises (the local call answers
\* success); after it the title is absent and a get of it returns the absent
\* value; a delete of an absent title, and so the second of two deletes, leaves
\* every record and the Save Marker unchanged.
C11_IdempotentDelete ==
    [][ret'.op = "delete" =>
          /\ ret'.deleted = (ret'.before # None)
          /\ ret'.value = Some([status |-> "success"])
          /\ ret'.title \notin DOMAIN store'
          /\ StoreGetTiddler(store', ret'.title) = None
          /\ ret'.before = None => (store' = store /\ wiki_metadata' = wiki_metadata)
          /\ wiki_metadata' = wiki_metadata]_vars

C11_Witness ==
    /\ ret.op = "delete"
    /\ ret.before = None
    /\ ~ret.deleted
    /\ DOMAIN store = {TitleA, TitleSys}
    /\ ret.title = TitleB
    /\ HasMarker

\* C12: the wire DELETE of a title always responds 204, whether or not a record
\* of the title existed; afterwards the title has no record and the record of
\* every other title is what it was.
C12_WireDeleteAlways204 ==
    [][ret'.op = "wire_delete" =>
          /\ ret'.status = 204
          /\ ret'.title \notin DOMAIN rows'
          /\ (DOMAIN rows') \cup {ret'.title} = (DOMAIN rows) \cup {ret'.title}
          /\ \A t \in DOMAIN rows' : rows'[t] = rows[t]]_vars

C12_Witness ==
    /\ ret.op = "wire_delete"
    /\ ret.status = 204
    /\ ret.before = None
    /\ ret.title = TitleSys
    /\ DOMAIN rows = {TitleA}
    /\ rows[TitleA].revision = 2

\* C13: a get answers by whether the title is stored and by nothing else: on the
\* wire 404 with an empty body when the title has no record and 200 with the
\* record when it has one; on the local-call surface the absent value when the
\* title has no record and the stored record when it has one.
C13_NotFound ==
    /\ ret.op = "wire_get" =>
          IF ret.title \in DOMAIN rows
          THEN /\ ret.status = 200
               /\ ret.value # None
               /\ ret.value[1].title = ret.title
               /\ ret.value[1].revision = rows[ret.title].revision
          ELSE /\ ret.status = 404
               /\ ret.value = None
    /\ ret.op = "get" =>
          IF ret.title \in DOMAIN store
          THEN ret.value = Some(store[ret.title])
          ELSE ret.value = None

C13_Witness ==
    /\ ret.op = "wire_get"
    /\ ret.status = 404
    /\ ret.title = TitleSys
    /\ TitleSys \in DOMAIN store
    /\ DOMAIN rows = {TitleNear}

\* The characters a percent-encoded text consists of
IsPercentEncoded(s) == \A i \in 1 .. Len(s) : s[i] \in AlwaysSafe \cup {"%"}

\* The character whose code %XX names
CharOfHex(pair) ==
    CHOOSE c \in {"$", ":", "/", " ", "%", "[", "]"} : HexOf(c) = pair

\* The text a percent-encoded text stands for
RECURSIVE PercentDecode(_)
PercentDecode(s) ==
    IF s = <<>> THEN <<>>
    ELSE IF Head(s) = "%" /\ Len(s) >= 3
         THEN <<CharOfHex(<<s[2], s[3]>>)>> \o PercentDecode(SubSeq(s, 4, Len(s)))
    ELSE <<Head(s)>> \o PercentDecode(Tail(s))

\* C14: a wire PUT responds 204 with ETag "default/{encoded}/{revision}:" where
\* encoded is the percent-encoded title (no reserved character left raw; decoding
\* it gives the title) and revision is the revision assigned to that put: the
\* stored revision before it plus one (1 for the first put), which is the stored
\* revision a following GET returns.
C14_PutETag ==
    /\ ret.op = "wire_put" =>
          LET rev == PriorRevision(ret.before) + 1
              d   == IntToStr(rev)
              enc == SubSeq(ret.etag, 10, Len(ret.etag) - Len(d) - 3)
          IN  /\ ret.status = 204
              /\ ret.etag = <<"\"", "d", "e", "f", "a", "u", "l", "t", "/">> \o enc
                               \o <<"/">> \o d \o <<":", "\"">>
              /\ IsPercentEncoded(enc)
              /\ PercentDecode(enc) = ret.title
              /\ ret.title \in DOMAIN rows
              /\ rows[ret.title].revision = rev
              /\ lastPut[ret.title] = Some([data |-> ret.arg[1], revision |-> rev])
    /\ (ret.op = "wire_get" /\ lastPut[ret.title] # None) =>
          /\ ret.value # None
          /\ ret.value[1].revision = lastPut[ret.title][1].revision

C14_Witness ==
    /\ ret.op = "wire_put"
    /\ ret.title = TitleSys
    /\ ret.before # None
    /\ ret.etag = <<"\"", "d", "e", "f", "a", "u", "l", "t", "/",
                    "%", "2", "4", "%", "3", "A", "%", "2", "F", "S",
                    "/", "2", ":", "\"">>

----------------------------------------------------------------------------
(* Claims about what a put stores and a get or the listing returns *)

\* The whitespace characters of the modelled tags
Whitespace == {" ", "\t"}

\* The canonical form of one tag: wrapped in [[ ]] when it contains whitespace
CanonicalTag(tag) ==
    IF \E i \in 1 .. Len(tag) : tag[i] \in Whitespace
    THEN <<"[", "[">> \o tag \o <<"]", "]">>
    ELSE tag

\* The canonical tags string of a list: its canonical tags joined by one space
RECURSIVE CanonicalTags(_)
CanonicalTags(list) ==
    IF list = <<>> THEN <<>>
    ELSE IF Len(list) = 1 THEN CanonicalTag(list[1])
    ELSE CanonicalTag(list[1]) \o <<" ">> \o CanonicalTags(Tail(list))

\* C15 (as claimed): a put whose tags are a list of strings stores, and a following
\* get returns, the tags joined by one space in input order with every tag that
\* contains whitespace wrapped in [[ ]]; tags given as a string are stored
\* unchanged.
C15_TagsCanonicalized ==
    (ret.op = "wire_put" /\ "tags" \in DOMAIN ret.arg[1]) =>
        LET tags     == ret.arg[1].tags
            expected == IF DOMAIN tags = {"list"} THEN CanonicalTags(tags.list)
                        ELSE tags.str
        IN  /\ rows[ret.title].tags = expected
            /\ GetTiddler(rows, ret.title)[1].tags = expected

\* C16 (as claimed): for any JSON value x supplied as the fields value of a put
\* (object, array, string, number, boolean), a following get of the title returns
\* fields equal to x, also when x is a string whose content is JSON text.
C16_FieldsRoundTrip ==
    (ret.op = "wire_put" /\ "fields" \in DOMAIN ret.arg[1]) =>
        /\ "fields" \in DOMAIN GetTiddler(rows, ret.title)[1]
        /\ GetTiddler(rows, ret.title)[1].fields = ret.arg[1].fields

\* The names the wire record defines: the columns of the table
KnownFields == DataColumns \cup {"title", "revision"}

\* C17 (as claimed): a top-level field of a put payload whose name the store does
\* not know is returned by a following get of the title with the same value, on
\* the wire surface and on the local-call surface.
C17_UnknownFieldsRoundTrip ==
    /\ ret.op = "wire_put" =>
          \A k \in (DOMAIN ret.arg[1]) \ KnownFields :
              /\ k \in DOMAIN GetTiddler(rows, ret.title)[1]
              /\ GetTiddler(rows, ret.title)[1][k] = ret.arg[1][k]
    /\ ret.op = "put" =>
          \A k \in (DOMAIN ret.arg[1]) \ KnownFields :
              /\ k \in DOMAIN StoreGetTiddler(store, ret.title)[1]
              /\ StoreGetTiddler(store, ret.title)[1][k] = ret.arg[1][k]

\* The local-call half of C17 on its own
C17_LocalSurfaceOnly ==
    ret.op = "put" =>
        \A k \in (DOMAIN ret.arg[1]) \ KnownFields :
            /\ k \in DOMAIN StoreGetTiddler(store, ret.title)[1]
            /\ StoreGetTiddler(store, ret.title)[1][k] = ret.arg[1][k]

\* C18: put replaces the record of the title and merges nothing: after a put
\* with payload f2 the title has its one record, whose fields are fields of f2
\* (plus the title and the revision), with the values of f2; a field of the
\* record it replaced that f2 lacks is not in it.  On both surfaces.
C18_PutIsFullReplace ==
    /\ ret.op = "wire_put" =>
          LET f2 == ret.arg[1]
              r  == GetTiddler(rows, ret.title)[1]
          IN  /\ ret.title \in DOMAIN rows
              /\ DOMAIN r \subseteq (DOMAIN f2) \cup {"title", "revision"}
              /\ \A c \in (DOMAIN r) \ {"title", "revision"} : r[c] = f2[c]
              /\ ret.before # None =>
                    \A c \in (DOMAIN ret.before[1]) \ ((DOMAIN f2) \cup {"title", "revision"}) :
                        c \notin DOMAIN r
    /\ ret.op = "put" =>
          LET f2 == ret.arg[1]
          IN  /\ ret.title \in DOMAIN store
              /\ StoreGetTiddler(store, ret.title) = Some(f2)
              /\ ret.before # None =>
                    \A c \in (DOMAIN ret.before[1]) \ DOMAIN f2 :
                        c \notin DOMAIN store[ret.title]

C18_Witness ==
    /\ ret.op = "wire_put"
    /\ ret.before # None
    /\ "modified" \in DOMAIN ret.before[1]
    /\ "modified" \notin DOMAIN ret.arg[1]
    /\ rows[ret.title].revision = 2
    /\ ret.title \in DOMAIN store
    /\ "modified" \in DOMAIN store[ret.title]

\* The extension-fields object of a stored row: the object its fields column
\* denotes, the empty object when there is none
ExtensionOf(row) ==
    IF "fields" \in DOMAIN row /\ DOMAIN row.fields = {"json"}
          /\ DOMAIN row.fields.json = {"dict"}
    THEN row.fields.json.dict
    ELSE [k \in {} |-> None]

\* C19 (as claimed): in every store state the listing has exactly one entry for
\* each stored non-system title and none for a system title; each entry omits
\* text, carries every other stored field, and carries the keys of the
\* extension-fields object at its top level.
C19_SkinnyListing ==
    ret.op = "wire_list" =>
        /\ DOMAIN ret.listing = NonSystem(DOMAIN rows)
        /\ \A t \in DOMAIN ret.listing :
              LET entry == ret.listing[t]
                  ext   == ExtensionOf(rows[t])
              IN  /\ "text" \notin DOMAIN entry
                  /\ "fields" \notin DOMAIN entry
                  /\ \A c \in (DOMAIN rows[t]) \ {"text", "fields"} :
                        c \in DOMAIN entry /\ entry[c] = rows[t][c]
                  /\ \A k \in DOMAIN ext :
                        /\ k \in DOMAIN entry
                        /\ k \notin DOMAIN rows[t] => entry[k] = ext[k]

\* C20 (as claimed): when the extension-fields object of a record has a key that
\* is the name of a top-level field of the same record, the listing entry carries
\* the value of the top-level field.
C20_TopLevelWins ==
    ret.op = "wire_list" =>
        \A t \in DOMAIN ret.listing :
            \A k \in (DOMAIN ExtensionOf(rows[t])) \cap ((DOMAIN rows[t]) \ {"text", "fields"}) :
                ret.listing[t][k] = rows[t][k]

----------------------------------------------------------------------------
(* Claims about rejected input, storage failures and reads *)

\* C26 (as claimed): a put with an empty title is rejected before any mutation: no
\* record with an empty title is stored in any reachable state, through the wire
\* PUT or the local putTiddler, and such a put ends in an error.
C26_EmptyTitleRejected ==
    /\ TitleEmpty \notin DOMAIN rows
    /\ TitleEmpty \notin DOMAIN store
    /\ (ret.op = "wire_put" /\ ret.title = TitleEmpty) => ret.status \in 400 .. 499
    /\ (ret.op = "put" /\ ret.title = TitleEmpty) => ret.raised # "none"

C28_StorageFailureLeavesStore ==
    (ret.op \in {"put", "delete"} /\ ret.raised = "sqlite3.Error") =>
        StoreGetTiddler(store, ret.title) = ret.before

ReadOps == {"wire_get", "wire_list", "wire_status", "get", "get_marker", "resolve"}

\* C30: reads have no side effect: a get, the skinny listing, the status probe,
\* getSaveMarker and resolve leave every record, every revision and the Save
\* Marker of both surfaces as they were, also when the title asked for is absent.
C30_ReadsHaveNoSideEffect ==
    [][ret'.op \in ReadOps =>
          /\ rows' = rows
          /\ store' = store
          /\ wiki_metadata' = wiki_metadata]_vars

C30_Witness ==
    /\ ret.op = "get_marker"
    /\ ret.value = Some(TwTimestamp(0))
    /\ DOMAIN rows = {TitleSys}
    /\ DOMAIN store = {TitleNear}

----------------------------------------------------------------------------
(* Claims about what one caller observes *)

\* C22: linearizable per caller: a GET of a title that a caller issues after its
\* own put of the title has returned reads the record of that put (its fields
\* with its revision) when no write of the title was executed after it, and
\* otherwise the outcome of the latest write executed after it (the record of
\* that put, or absent after a delete); never a state older than its own write.
C22_ReadYourWrites ==
    \A th \in Threads :
        (pc[th] = "get_ret" /\ own[th] # None /\ own[th][1].title = req[th].title) =>
            IF ~own[th][1].later
            THEN /\ tiddler[th] # None
                 /\ IsCompleteRecord(tiddler[th][1], req[th].title, own[th][1])
            ELSE IF lastPut[req[th].title] = None THEN tiddler[th] = None
            ELSE /\ tiddler[th] # None
                 /\ IsCompleteRecord(tiddler[th][1], req[th].title,
                                     lastPut[req[th].title][1])

C22_Witness ==
    \E th, w \in Threads :
        /\ th # w
        /\ pc[th] = "get_ret"
        /\ own[th] # None
        /\ own[th][1].title = req[th].title
        /\ ~own[th][1].later
        /\ own[th][1].revision = 2
        /\ tiddler[th] # None
        /\ tiddler[th][1].revision = 2
        /\ pc[w] = "put_lock"
        /\ req[w].title = req[th].title

----------------------------------------------------------------------------
(* Claims about the documents of the application *)

\* The Save Marker in the database file of a document
MarkerOf(d) == GetLastHtmlSave(db_files[d].wiki_metadata)

\* C21 (as claimed): after every successful save of a document, on every save
\* entry point (WikiWindowAPI.save and MultiWikiApp.save), the Save Marker of the
\* document's store is the time of that save.
C21_SaveRecordsMarker ==
    (ret.op \in {"save", "app_save"} /\ ret.wiki_id # NoWiki /\ ret.raised = "none") =>
        MarkerOf(ret.wiki_id) = Some(TwTimestamp(ret.now))

\* The part of C21 about a save with empty content: it fails and changes neither
\* the snapshot nor the Save Marker
C21_EmptySaveWritesNothing ==
    [][(ret' # ret /\ ret'.op \in {"save", "app_save"} /\ ret'.raised = "ValueError") =>
          wiki_html' = wiki_html /\ db_files' = db_files]_vars

\* The WikiWindowAPI instances whose connection to the database of d is open
OpenStores(d) ==
    {i \in DOMAIN api_instances : api_instances[i].open /\ DbPath(DocOf(i)) = DbPath(d)}

\* C23 (as claimed): at any time at most one open store instance (one connection
\* with its one lock) exists per document, whatever the sequence of open and
\* close events.
C23_OneOpenStorePerDocument ==
    \A d \in Docs : Cardinality(OpenStores(d)) <= 1

\* C24 (as claimed): the connection of a document instance is not closed while
\* its window is open, no store call runs on a closed connection, and after the
\* closing event of the window the connection is eventually closed.
C24_HandleRelease ==
    /\ [](\A i \in DOMAIN api_instances :
             /\ api_instances[i].window = "open" => api_instances[i].open
             /\ \A th \in Threads :
                   (api_pc[th] # "idle" /\ api_req[th].inst = i) => api_instances[i].open)
    /\ \A i \in Instances :
          (i \in DOMAIN api_instances /\ api_instances[i].window = "closed")
              ~> (i \in DOMAIN api_instances /\ ~api_instances[i].open)

\* The safety part of C24 alone
C24_NeverClosedInUse ==
    \A i \in DOMAIN api_instances :
        /\ api_instances[i].window = "open" => api_instances[i].open
        /\ \A th \in Threads :
              (api_pc[th] # "idle" /\ api_req[th].inst = i) => api_instances[i].open

\* A call that holds the lock of its store and runs the statements inside it
InsideLock(th) == api_pc[th] \in {"exec", "exec2"}

\* A call that waits: the lock it needs is held by another thread
Blocked(th) ==
    api_pc[th] = "enter" /\ ~CanAcquire(store_lock[api_req[th].inst], th)

\* The call thread th makes or has just finished in a step
CallOf(th, before, after) == IF before[th].inst = 0 THEN after[th] ELSE before[th]

\* C25: instance isolation: a call on the store of one document (put, delete,
\* save, resolve) changes neither the database nor the file of the other
\* document, and a call waits only while another call on the same document is
\* inside the lock, never for a lock of the other document's store.
C25_InstanceIsolation ==
    /\ [](\A th \in Threads :
             Blocked(th) =>
                 \E o \in Threads \ {th} :
                     /\ InsideLock(o)
                     /\ DocOf(api_req[o].inst) = DocOf(api_req[th].inst))
    /\ [][\A th \in Threads :
             api_pc'[th] # api_pc[th] =>
                 \A e \in Docs \ {DocOf(CallOf(th, api_req, api_req').inst)} :
                     db_files'[e] = db_files[e] /\ wiki_html'[e] = wiki_html[e]]_vars

C25_Witness ==
    \E th, o \in Threads :
        /\ api_pc[th] = "exec"
        /\ api_pc[o] = "exec"
        /\ api_req[th].op = "put"
        /\ api_req[o].op = "save"
        /\ DocOf(api_req[th].inst) = 1
        /\ DocOf(api_req[o].inst) = 2
        /\ TitleA \in DOMAIN db_files[2].tiddlers
        /\ TitleA \notin DOMAIN db_files[1].tiddlers
        /\ MarkerOf(1) # None
        /\ MarkerOf(2) = None

----------------------------------------------------------------------------
(* Claims about the two surfaces of one document *)

\* C31 (as claimed): for one document a record written by local putTiddler is
\* returned by the wire GET and listed by the skinny listing, and a record
\* written by a wire PUT is returned by local getTiddler and reported by resolve:
\* the facade keeps nothing of its own.
C31_FacadeUsesTheStore ==
    /\ (ret.op = "wire_get" /\ localPut[ret.title] # None) =>
           /\ ret.status = 200
           /\ ret.value # None
           /\ ret.value[1].text = localPut[ret.title][1].text
    /\ ret.op = "wire_list" =>
           \A t \in WireTitles : localPut[t] # None => t \in DOMAIN ret.listing
    /\ (ret.op = "get" /\ lastPut[ret.title] # None) => ret.value # None
    /\ ret.op = "resolve" =>
           \A t \in WireTitles : lastPut[t] # None => t \in ret.modifications

----------------------------------------------------------------------------
(* Claims about the Save Marker *)

\* C34: the Save Marker is absent until the first record_html_save and afterwards
\* always the timestamp of the latest one; it never decreases (the clock does
\* not); put, delete, get and resolve leave it as it is, and a save changes no
\* tiddler record.
C34_SaveMarkerLifecycle ==
    /\ [](GetLastHtmlSave(wiki_metadata) = lastSave)
    /\ [][/\ ret'.op \in {"put", "delete", "get", "resolve"} =>
                wiki_metadata' = wiki_metadata
          /\ (ret'.op = "save" /\ ret'.raised = "none" /\ clock' = clock) =>
                /\ GetLastHtmlSave(wiki_metadata') = Some(TwTimestamp(clock))
                /\ store' = store
          /\ HasMarker =>
                /\ "last_html_save" \in DOMAIN wiki_metadata'
                /\ ~TextLess(wiki_metadata'["last_html_save"],
                             wiki_metadata["last_html_save"])]_vars

C34_Witness ==
    /\ ret.op = "delete"
    /\ ret.deleted
    /\ clock = 2
    /\ lastSave = Some(TwTimestamp(1))
    /\ GetLastHtmlSave(wiki_metadata) = Some(TwTimestamp(1))
    /\ TitleB \in DOMAIN store

----------------------------------------------------------------------------
(* Claims about the windows *)

\* The WikiWindowAPI instances whose window is open and shows document d
OpenWindows(d) ==
    {i \in DOMAIN api_instances : api_instances[i].window = "open" /\ DocOf(i) = d}

\* C37 (as claimed): for any sequence of create_wiki_window, close_wiki_window
\* and closing events at most one open window exists per document id, and an id
\* is tracked exactly when its window is open.
C37_OneWindowPerDocument ==
    \A d \in Docs :
        /\ Cardinality(OpenWindows(d)) <= 1
        /\ d \in DOMAIN wiki_windows <=> OpenWindows(d) # {}

\* C38 (as claimed): on the loaded event of a document window whose API object
\* has a tiddler store, the tiddlers the store holds are in the client's preload
\* list when the client boots, and the boot is triggered in every case.
C38_InjectThenBoot ==
    \A i \in DOMAIN client :
        client[i].loaded =>
            /\ client[i].booted
            /\ client[i].preload = client[i].held

\* The part of C38 that holds: the boot follows the loaded event in every case
C38_BootAlways ==
    \A i \in DOMAIN client : client[i].loaded => client[i].booted

----------------------------------------------------------------------------
(* The calls of one wiki window on its store, interleaved *)

\* The database file of the wiki whose window is open
SyncFile == db_files[DbPath(SyncWiki)]

\* Thread th returns from get_updated_tiddlers in this step
ResolveReturns(th) == api_pc[th] = "exec2" /\ api_pc'[th] = "idle"

\* The statements inside the lock run while their thread holds the lock, and the
\* lock is free when no call is inside it
C32_LockDiscipline ==
    /\ \A th \in Threads :
          InsideLock(th) =>
              /\ store_lock[api_req[th].inst].owner = th
              /\ store_lock[api_req[th].inst].count = 1
    /\ \A i \in DOMAIN store_lock :
          (\A th \in Threads : ~(InsideLock(th) /\ api_req[th].inst = i)) =>
              store_lock[i] = FreeLock

\* While calls are pending one of them can take a step
C32_NoDeadlock ==
    (\E th \in Threads : api_pc[th] # "idle") =>
        \E th \in Threads :
            \/ InsideLock(th)
            \/ api_pc[th] = "enter" /\ CanAcquire(store_lock[api_req[th].inst], th)

\* C32: lock discipline without deadlock: every store operation runs while its
\* thread holds the single lock of the store, the lock is released when the
\* operation returns, and with any number of threads every invoked operation
\* eventually completes.
C32_EveryOperationCompletes ==
    /\ []C32_LockDiscipline
    /\ \A th \in Threads : (api_pc[th] # "idle") ~> (api_pc[th] = "idle")

\* C33: no reader starvation: a resolve waiting for the store lock eventually
\* acquires it and completes even when other threads put continuously, given
\* only that a thread that holds the lock gives it back.
C33_NoReaderStarvation ==
    \A th \in Threads :
        (api_pc[th] = "enter" /\ api_req[th].op = "resolve") ~> (api_pc[th] = "idle")

\* C35: a resolve result is a consistent snapshot: under every interleaving of
\* puts and deletes on the same store the modified list and the deleted list one
\* resolve returns are those of one store state, the one at its return, and no
\* title is in both lists.
C35_ResolveSnapshot ==
    [][\A th \in Threads :
          ResolveReturns(th) =>
              LET result == GetUpdatedTiddlers(SyncFile.tiddlers, SyncFile.wiki_metadata,
                                               None, ResolveLive)
              IN  /\ ret'.modifications = result.modifications
                  /\ ret'.deletions = result.deletions
                  /\ ret'.modifications \cap ret'.deletions = {}]_vars

C35_Witness ==
    \E o \in Threads :
        /\ ret.op = "resolve"
        /\ ret.baseline # None
        /\ ret.modifications = {TitleA}
        /\ ret.deletions = {}
        /\ api_pc[o] = "enter"
        /\ api_req[o].op = "delete"

\* C36: first-sync completeness: under every interleaving of put and save on one
\* document, every non-system tiddler in the store that the saved snapshot does
\* not contain is reported as modified by the next resolve without a timestamp.
C36_FirstSyncComplete ==
    [][\A th \in Threads :
          ResolveReturns(th) =>
              (NonSystemTitles(SyncFile.tiddlers) \ wiki_html[SyncWiki].tiddlers)
                  \subseteq ret'.modifications]_vars

----------------------------------------------------------------------------
(* The catalog of wikis (wikis.json) and the calls of the main window's page   *)
(* on it, each on a thread of its own. The registry is the list of the ids of  *)
(* the entries of metadata["wikis"].                                           *)

notCatalogVars == <<facadeVars, storeVars, ret, is_android_env, current_wiki_id,
                    wiki_windows, api_instances, wiki_api, wiki_html, db_files,
                    store_lock, api_pc, api_req, client, sharedFileVars>>

WikiIds == 1 .. MaxWikis

CatalogOps == {"delete", "list", "update"}

\* The number of entries of the list with the id
Occurrences(wikis, id) == Cardinality({k \in DOMAIN wikis : wikis[k] = id})

\* metadata["wikis"].pop(wiki_index), wiki_index the first entry with the id
PopFirst(wikis, id) ==
    LET wiki_index == CHOOSE k \in DOMAIN wikis :
                          wikis[k] = id /\ \A j \in 1 .. k - 1 : wikis[j] # id
    IN  [k \in 1 .. Len(wikis) - 1 |-> IF k < wiki_index THEN wikis[k] ELSE wikis[k + 1]]

\* create_wiki up to its _load_metadata: uuid4 gives an id no wiki has had, the
\* template is copied
CreateWikiBegin(th) ==
    /\ cat_pc[th] = "idle"
    /\ issued < MaxWikis
    /\ issued' = issued + 1
    /\ cat_local' = [cat_local EXCEPT ![th] =
                        [op |-> "create", wiki_id |-> issued + 1, metadata |-> <<>>]]
    /\ cat_pc' = [cat_pc EXCEPT ![th] = "load"]
    /\ UNCHANGED <<registry, created, deleted>>
    /\ UNCHANGED notCatalogVars

\* delete_wiki, list_wikis, update_last_opened are called
CatalogBegin(th, op, wiki_id) ==
    /\ cat_pc[th] = "idle"
    /\ cat_local' = [cat_local EXCEPT ![th] =
                        [op |-> op, wiki_id |-> wiki_id, metadata |-> <<>>]]
    /\ cat_pc' = [cat_pc EXCEPT ![th] = "load"]
    /\ UNCHANGED <<registry, created, deleted, issued>>
    /\ UNCHANGED notCatalogVars

\* _load_metadata; delete_wiki and update_last_opened raise ValueError when no
\* entry has the id
LoadMetadata(th) ==
    LET call == cat_local[th]
    IN  /\ cat_pc[th] = "load"
        /\ IF call.op \in {"delete", "update"} /\ Occurrences(registry, call.wiki_id) = 0
           THEN /\ cat_pc' = [cat_pc EXCEPT ![th] = "idle"]
                /\ cat_local' = [cat_local EXCEPT ![th] = NoCatalogCall]
           ELSE /\ cat_pc' = [cat_pc EXCEPT ![th] = "save"]
                /\ cat_local' = [cat_local EXCEPT ![th].metadata = registry]
        /\ UNCHANGED <<registry, created, deleted, issued>>
        /\ UNCHANGED notCatalogVars

\* The change of the loaded metadata, _save_metadata of it, and the return
SaveMetadata(th) ==
    LET call == cat_local[th]
    IN  /\ cat_pc[th] = "save"
        /\ registry' = CASE call.op = "create" -> Append(call.metadata, call.wiki_id)
                         [] call.op = "delete" -> PopFirst(call.metadata, call.wiki_id)
                         [] OTHER -> call.metadata
        /\ created' = IF call.op = "create" THEN created \cup {call.wiki_id} ELSE created
        /\ deleted' = IF call.op = "delete" THEN deleted \cup {call.wiki_id} ELSE deleted
        /\ cat_pc' = [cat_pc EXCEPT ![th] = "idle"]
        /\ cat_local' = [cat_local EXCEPT ![th] = NoCatalogCall]
        /\ UNCHANGED issued
        /\ UNCHANGED notCatalogVars

NextCat ==
    \/ \E th \in Threads : CreateWikiBegin(th)
    \/ \E th \in Threads, op \in CatalogOps, wiki_id \in WikiIds :
          CatalogBegin(th, op, wiki_id)
    \/ \E th \in Threads : LoadMetadata(th)
    \/ \E th \in Threads : SaveMetadata(th)

SpecCat == Init /\ [][NextCat]_vars

\* C39: catalog updates are not lost: under every interleaving of create_wiki,
\* delete_wiki, list_wikis and update_last_opened every wiki whose create_wiki
\* returned and that was not deleted is in the registry exactly once, and every
\* deleted wiki is absent.
C39_CatalogUpdatesKept ==
    /\ \A id \in created \ deleted : Occurrences(registry, id) = 1
    /\ \A id \in deleted : Occurrences(registry, id) = 0

\* The part of C39 that holds: no id is in the registry twice
C39_NoDuplicates ==
    \A id \in WikiIds : Occurrences(registry, id) <= 1

====
